---------------------------- MODULE Spec2Model ----------------------------
(***************************************************************************)
(* A model of the databasemodels package: the column-type hierarchy, the   *)
(* registration of a record type (the model decorator), the value codec    *)
(* and the CRUD operations of a registered record type, run against a      *)
(* database that is modelled as tables of rows with one sequence per table.*)
(***************************************************************************)
EXTENDS Integers, Sequences, FiniteSets, TLC

VARIABLES
    db,        \* table contents: model name -> set of rows (column -> cell)
    seq,       \* last value handed out by each table's SERIAL sequence
    heap,      \* the caller's record objects: variable name -> object
    origin,    \* history: whose INSERT created each row the tables hold
    log,       \* the statements sent to the database by the last call
    last,      \* the last call: operation, target, arguments, outcome
    regDecl,   \* the field declarations of the record type being registered
    regResult, \* the outcome of registering regDecl
    cType,     \* codec under test: the column type
    cData,     \* codec under test: the host value handed to the type
    cResult,   \* codec under test: the outcome of the conversion
    cat,       \* the catalogue: the schemas, tables and enum types that exist
    proc       \* operations in progress: where each of them stands

vars == <<db, seq, heap, origin, log, last, regDecl, regResult, cType, cData, cResult,
          cat, proc>>

-----------------------------------------------------------------------------
(* Bounds of the model.                                                    *)

\* The sequence of the people table hands out the keys 1..MaxKey.
MaxKey == 2

\* The sequence of the orders table hands out the keys 1..MaxOrders.
MaxOrders == 1

\* The longest chain of modifiers wrapped around a base type.
MaxChain == 2

-----------------------------------------------------------------------------
(* Host values.  Python values are tagged so that values of different      *)
(* Python types can be compared.  A str is a sequence of characters.       *)

None == [k |-> "none"]
I(n) == [k |-> "int", i |-> n]
S(cs) == [k |-> "str", s |-> cs]
L(xs) == [k |-> "list", l |-> xs]
B(b) == [k |-> "bool", b |-> b]
\* A reference to an object one of the caller's variables also names.
Ref(o) == [k |-> "ref", o |-> o]
\* A record object nothing else refers to (built by a fetch).
Obj(m, f) == [k |-> "obj", m |-> m, f |-> f]

NoErr == "ok"

\* The object a field value stands for: the caller's object behind a reference.
Deref(h, v) == IF v.k = "ref" THEN h[v.o] ELSE v

Digits == <<"0", "1", "2", "3", "4", "5", "6", "7", "8", "9">>

IsDigit(c) == \E d \in 1..10 : Digits[d] = c

DigitVal(c) == (CHOOSE d \in 1..10 : Digits[d] = c) - 1

\* str(n) for an int n >= 0
RECURSIVE IntToChars(_)
IntToChars(n) ==
    IF n < 10 THEN <<Digits[n + 1]>>
    ELSE Append(IntToChars(n \div 10), Digits[(n % 10) + 1])

\* int(s) accepts a non-empty digit string
IsIntText(cs) == Len(cs) > 0 /\ \A j \in 1..Len(cs) : IsDigit(cs[j])

RECURSIVE CharsToInt(_)
CharsToInt(cs) ==
    IF Len(cs) = 0 THEN 0
    ELSE 10 * CharsToInt(SubSeq(cs, 1, Len(cs) - 1)) + DigitVal(cs[Len(cs)])

-----------------------------------------------------------------------------
(* Column types.                                                           *)

LiteralType(literal, converter, inverse) ==
    [k |-> "LiteralType", type |-> literal, rawName |-> literal,
     converter |-> converter, inverse |-> inverse]

PseudoType(name, rawName, converter, inverse) ==
    [k |-> "LiteralType", type |-> name, rawName |-> rawName,
     converter |-> converter, inverse |-> inverse]

INTEGER == LiteralType("INTEGER", "int", "int")
SERIAL == PseudoType("SERIAL", "INTEGER", "int", "int")
TEXT == LiteralType("TEXT", "str", "str")
\* the converter lambda s: s == 't' is named "eq_t"
BOOL == LiteralType("BOOLEAN", "eq_t", "bool")

EnumType(type, enums) == [k |-> "EnumType", type |-> type, enums |-> enums]

NotNull(t) == [k |-> "NotNull", type |-> t]
PrimaryKey(t) == [k |-> "PrimaryKey", type |-> t]
Unique(t) == [k |-> "Unique", type |-> t]
NoLength == 0 - 1
Array(t, length) == [k |-> "Array", type |-> t, length |-> length]

\* ForeignKey[model]: the referenced column is the model's primary key;
\* ForeignKey[model, column]: it is the column named.
ForeignKey(model, column) == [k |-> "ForeignKey", model |-> model, column |-> column]

Modifiers == {"NotNull", "PrimaryKey", "Unique", "Array"}

\* ColumnType.primary / ModifiedColumnType.primary / PrimaryKey.primary
\* primary looking at the outermost wrapper only
primary_outermost(t) == t.k = "PrimaryKey"

RECURSIVE primary(_)
primary(t) ==
    CASE t.k = "PrimaryKey" -> TRUE
      [] t.k \in {"NotNull", "Unique", "Array"} -> primary(t.type)
      [] OTHER -> FALSE


-----------------------------------------------------------------------------
(* Registration of a record type: model(_schema, _table)(cls).             *)

Letters ==
    {"a", "b", "c", "d", "e", "f", "g", "h", "i", "j", "k", "l", "m", "n", "o",
     "p", "q", "r", "s", "t", "u", "v", "w", "x", "y", "z", "A", "B", "C", "D",
     "E", "F", "G", "H", "I", "J", "K", "L", "M", "N", "O", "P", "Q", "R", "S",
     "T", "U", "V", "W", "X", "Y", "Z"}

\* The characters of each field name the model uses; a60 stands for the
\* name of sixty letters a, cafe for the identifier whose last letter is
\* the e with an acute accent, written as its code point.
Chars ==
    ("id" :> <<"i", "d">>) @@
    ("name" :> <<"n", "a", "m", "e">>) @@
    ("customerID" :> <<"c", "u", "s", "t", "o", "m", "e", "r", "I", "D">>) @@
    ("quantity" :> <<"q", "u", "a", "n", "t", "i", "t", "y">>) @@
    ("conn" :> <<"c", "o", "n", "n">>) @@
    ("boolean" :> <<"b", "o", "o", "l", "e", "a", "n">>) @@
    ("color" :> <<"c", "o", "l", "o", "r">>) @@
    ("product" :> <<"p", "r", "o", "d", "u", "c", "t">>) @@
    ("user" :> <<"u", "s", "e", "r">>) @@
    ("a60" :> [j \in 1..60 |-> "a"]) @@
    ("cafe" :> <<"c", "a", "f", "U+00E9">>) @@
    ("1x" :> <<"1", "x">>)

\* The number of characters after the first that the pattern may consume.
NameTail == 58

\* How many of the characters cs[j..] the class [a-zA-Z0-9_] accepts, at most n.
RECURSIVE WordRun(_, _, _)
WordRun(cs, j, n) ==
    IF n = 0 \/ j > Len(cs) THEN 0
    ELSE IF cs[j] \in Letters \/ IsDigit(cs[j]) \/ cs[j] = "_"
         THEN 1 + WordRun(cs, j + 1, n - 1)
         ELSE 0

\* COLUMN_NAME.match(name): the length of the prefix matched, -1 for None.
COLUMN_NAME(cs) ==
    IF Len(cs) >= 1 /\ (cs[1] \in Letters \/ cs[1] = "_")
    THEN 1 + WordRun(cs, 2, NameTail)
    ELSE 0 - 1

IsColumnType(t) ==
    t.k \in {"LiteralType", "EnumType", "ForeignKey", "NotNull", "PrimaryKey", "Unique", "Array"}

\* Column.fromField: the error of the first assertion that fails
fromField(field) ==
    IF COLUMN_NAME(Chars[field.name]) < 0 THEN "AssertionError"
    ELSE IF field.name = "conn" THEN "AssertionError"
    ELSE IF ~IsColumnType(field.type) THEN "AssertionError"
    ELSE NoErr

NoColumn == "<none>"

\* The loop over fields(cls): st is the registration state before field i.
RECURSIVE wrappedLoop(_, _, _)
wrappedLoop(fs, i, st) ==
    IF i > Len(fs) \/ st.err # NoErr THEN st
    ELSE
      LET field == fs[i]
          e1 == fromField(field)
          args == IF field.default # "AUTO_FILLED"
                  THEN Append(st.argsNames, field.name) ELSE st.argsNames
          cols == Append(st.columns, [name |-> field.name, type |-> field.type])
      IN
      IF e1 # NoErr THEN [st EXCEPT !.err = e1]
      ELSE IF primary(field.type) /\ st.primaryKey # NoColumn
      THEN [st EXCEPT !.err = "TypeError", !.argsNames = args, !.columns = cols]
      ELSE IF field.default \notin {"MISSING", "NO_DEFAULT", "AUTO_FILLED"}
      THEN [st EXCEPT !.err = "TypeError", !.argsNames = args, !.columns = cols,
                      !.primaryKey = IF primary(field.type) THEN field.name ELSE @]
      ELSE wrappedLoop(fs, i + 1,
               [st EXCEPT !.argsNames = args, !.columns = cols,
                          !.primaryKey = IF primary(field.type) THEN field.name ELSE @])

\* model(...).wrapped: the record schema, or the error that ends registration.
wrapped(fs) ==
    wrappedLoop(fs, 1, [err |-> NoErr, columns |-> <<>>, primaryKey |-> NoColumn,
                        argsNames |-> <<>>])


-----------------------------------------------------------------------------
(* The record types of the model: Person and Order of the example script,  *)
(* reduced to the columns the operations below need, and of the tests Misc, *)
(* a record type without a primary key, Fruit, one with an enum column, and *)
(* TestOrder, the Order of the tests with its two foreign keys and its      *)
(* quantity, Person standing for the types it refers to.                    *)

\* Color of the tests, reduced to two literals
Color == EnumType("Color", {<<"r", "e", "d">>, <<"y", "e", "l", "l", "o", "w">>})

Models == {"Person", "Order", "Misc", "Fruit", "TestOrder"}

Declaration(m) ==
    CASE m = "Person" ->
           << [name |-> "name", type |-> NotNull(TEXT), default |-> "NO_DEFAULT"],
              [name |-> "id", type |-> PrimaryKey(SERIAL), default |-> "AUTO_FILLED"] >>
      [] m = "Order" ->
           << [name |-> "id", type |-> PrimaryKey(SERIAL), default |-> "AUTO_FILLED"],
              [name |-> "customerID", type |-> ForeignKey("Person", "id"),
               default |-> "NO_DEFAULT"] >>
      [] m = "Misc" ->
           << [name |-> "boolean", type |-> NotNull(BOOL), default |-> "NO_DEFAULT"] >>
      [] m = "Fruit" ->
           << [name |-> "id", type |-> PrimaryKey(SERIAL), default |-> "AUTO_FILLED"],
              [name |-> "color", type |-> Color, default |-> "NO_DEFAULT"] >>
      [] m = "TestOrder" ->
           << [name |-> "id", type |-> PrimaryKey(SERIAL), default |-> "AUTO_FILLED"],
              [name |-> "product", type |-> ForeignKey("Person", "id"),
               default |-> "NO_DEFAULT"],
              [name |-> "user", type |-> ForeignKey("Person", "id"),
               default |-> "NO_DEFAULT"],
              [name |-> "quantity", type |-> INTEGER, default |-> "NO_DEFAULT"] >>

\* The schema each record type was registered with: model(_schema, _table).
schemaName(m) == IF m \in {"Person", "Order"} THEN "example" ELSE "unittests"

SchemaNames == {schemaName(m) : m \in Models}

\* The registered record types: the decorator is applied once to each.
Registry == [m \in Models |-> wrapped(Declaration(m))]

\* __column_definitions__, __primary_key__ and argsNames of a registered type
Schema(m) == Registry[m]

ColumnNames(m) == [j \in 1..Len(Schema(m).columns) |-> Schema(m).columns[j].name]

InSeq(x, xs) == \E j \in 1..Len(xs) : xs[j] = x

\* The innermost type of a chain of modifiers (what typeStatement starts with).
RECURSIVE baseType(_)
baseType(t) ==
    IF t.k \in Modifiers THEN baseType(t.type) ELSE t

\* WrappedClass.primaryKeyValue
primaryKeyValue(obj) ==
    IF Schema(obj.m).primaryKey = NoColumn THEN None
    ELSE obj.f[Schema(obj.m).primaryKey]

-----------------------------------------------------------------------------
(* The database: what the statements of the package do to the tables, and  *)
(* what comes back.  Cells are None (NULL), I(n) or S(cs); a cell inside a *)
(* returned record arrives as text.                                        *)

cellText(cell) ==
    CASE cell.k = "none" -> None
      [] cell.k = "int" -> S(IntToChars(cell.i))
      [] cell.k = "str" -> cell
      [] cell.k = "bool" -> S(IF cell.b THEN <<"t">> ELSE <<"f">>)

\* WHERE column = Literal(lit): NULL equals nothing, other literals compare as text
Matches(row, col, lit) ==
    /\ lit.k \in {"int", "str"}
    /\ row[col].k # "none"
    /\ cellText(row[col]) = cellText(lit)

RECURSIVE SetToSeq(_)
SetToSeq(rows) ==
    IF rows = {} THEN <<>>
    ELSE LET r == CHOOSE x \in rows : \A y \in rows : x.id.i <= y.id.i
         IN <<r>> \o SetToSeq(rows \ {r})

Stmt(op, m, key, n) == [op |-> op, m |-> m, key |-> key, n |-> n]

Raise(w, e) == [w EXCEPT !.err = e]

\* <type>.initializeType(conn): the enum types it creates on the server
RECURSIVE initializeType(_)
initializeType(t) ==
    CASE t.k = "EnumType" -> {t.type}
      [] t.k \in Modifiers -> initializeType(t.type)
      [] OTHER -> {}

\* The enum types the columns of the record types name.
TypeNames ==
    UNION {UNION {initializeType(Schema(m).columns[j].type) :
                    j \in 1..Len(Schema(m).columns)} : m \in Models}

\* The catalogue once every record type has had its table created.
Installed == [schemas |-> SchemaNames, tables |-> Models, types |-> TypeNames]

\* The catalogue of a database nothing was created in.
Blank == [schemas |-> {}, tables |-> {}, types |-> {}]

\* No operation is in progress.
Idle == [k |-> "idle"]

\* A schema statement: its words, what it names, the columns it defines.
DDL(op, on, cols) == [op |-> op, on |-> on, cols |-> cols]

\* The database as createTable sees it: catalogue, tables, sequences, the
\* statements sent, the pending exception.
Server(c, d, q) == [cat |-> c, db |-> d, seq |-> q, log |-> <<>>, err |-> NoErr]

\* for defini in __column_definitions__.values(): defini.initialize(conn),
\* from column i on; each enum type is created unless it exists
RECURSIVE initializeColumns(_, _, _)
initializeColumns(c, m, i) ==
    IF i > Len(Schema(m).columns) THEN c
    ELSE LET types == initializeType(Schema(m).columns[i].type)
         IN initializeColumns(
                [c EXCEPT !.cat.types = @ \cup types,
                          !.log = @ \o [j \in 1..Cardinality(types) |->
                                           DDL("CREATE TYPE", CHOOSE t \in types : TRUE, <<>>)]],
                m, i + 1)

\* DROP SCHEMA IF EXISTS ... CASCADE, when recreateSchema: the tables of the
\* schema go with their rows and sequences
dropSchema(c, m, recreateSchema) ==
    IF ~recreateSchema THEN c
    ELSE [c EXCEPT !.cat.schemas = @ \ {schemaName(m)},
                   !.cat.tables = {n \in @ : schemaName(n) # schemaName(m)},
                   !.db = [n \in Models |-> IF schemaName(n) = schemaName(m) THEN {} ELSE @[n]],
                   !.seq = [n \in Models |-> IF schemaName(n) = schemaName(m) THEN 0 ELSE @[n]],
                   !.log = Append(@, DDL("DROP SCHEMA", schemaName(m), <<>>))]

\* CREATE SCHEMA IF NOT EXISTS
createSchema(c, m) ==
    [c EXCEPT !.cat.schemas = @ \cup {schemaName(m)},
              !.log = Append(@, DDL("CREATE SCHEMA", schemaName(m), <<>>))]

\* DROP TABLE IF EXISTS ... CASCADE, when recreateTable
dropTable(c, m, recreateTable) ==
    IF ~recreateTable THEN c
    ELSE [c EXCEPT !.cat.tables = @ \ {m},
                   !.db[m] = {},
                   !.seq[m] = 0,
                   !.log = Append(@, DDL("DROP TABLE", m, <<>>))]

\* The tables the REFERENCES clauses of m's columns name.
referencedTables(m) ==
    {baseType(Schema(m).columns[j].type).model :
        j \in {i \in 1..Len(Schema(m).columns) :
                  baseType(Schema(m).columns[i].type).k = "ForeignKey"}}

\* CREATE TABLE without IF NOT EXISTS: an existing table is an error
createTableStatement_strict(c, m) ==
    IF m \in c.cat.tables
    THEN [c EXCEPT !.err = "DuplicateTable",
                   !.log = Append(@, DDL("CREATE TABLE", m, ColumnNames(m)))]
    ELSE [c EXCEPT !.cat.tables = @ \cup {m},
                   !.log = Append(@, DDL("CREATE TABLE", m, ColumnNames(m)))]

\* CREATE TABLE IF NOT EXISTS with one definition per column: refused when
\* a table it references does not exist
createTableStatement(c, m) ==
    IF m \in c.cat.tables
    THEN [c EXCEPT !.log = Append(@, DDL("CREATE TABLE", m, ColumnNames(m)))]
    ELSE IF ~(referencedTables(m) \subseteq c.cat.tables)
    THEN [c EXCEPT !.err = "UndefinedTable",
                   !.log = Append(@, DDL("CREATE TABLE", m, ColumnNames(m)))]
    ELSE [c EXCEPT !.cat.tables = @ \cup {m},
                   !.log = Append(@, DDL("CREATE TABLE", m, ColumnNames(m)))]

\* createTable dropping the table after it has created it
createTable_dropsLast(c, m, recreateSchema, recreateTable) ==
    dropTable(createTableStatement(createSchema(dropSchema(initializeColumns(c, m, 1),
                                                           m, recreateSchema), m), m),
              m, recreateTable)

\* WrappedClass.createTable(conn, recreateSchema=..., recreateTable=...)
createTable(c, m, recreateSchema, recreateTable) ==
    createTableStatement(
        dropTable(createSchema(dropSchema(initializeColumns(c, m, 1), m, recreateSchema), m),
                  m, recreateTable),
        m)


-----------------------------------------------------------------------------
(* The value codec and the CRUD operations.  Every operation takes the     *)
(* world w (database, sequences, caller objects, statement log, pending    *)
(* exception) and returns the world it leaves.  Once w.err is set the      *)
(* exception propagates: nothing further is executed.                      *)

\* acceptNone(func)(x) for the converters int, str, bool and
\* lambda s: s == 't'
applyConverter(func, x) ==
    IF x.k = "none" THEN [err |-> NoErr, v |-> None]
    ELSE IF func = "int" THEN
        CASE x.k = "int" -> [err |-> NoErr, v |-> x]
          [] x.k = "str" -> IF IsIntText(x.s)
                            THEN [err |-> NoErr, v |-> I(CharsToInt(x.s))]
                            ELSE [err |-> "ValueError", v |-> None]
          [] x.k = "bool" -> [err |-> NoErr, v |-> I(IF x.b THEN 1 ELSE 0)]
          [] OTHER -> [err |-> "TypeError", v |-> None]
    ELSE IF func = "bool" THEN
        CASE x.k = "bool" -> [err |-> NoErr, v |-> x]
          [] x.k = "int" -> [err |-> NoErr, v |-> B(x.i # 0)]
          [] x.k = "str" -> [err |-> NoErr, v |-> B(x.s # <<>>)]
          [] x.k = "list" -> [err |-> NoErr, v |-> B(x.l # <<>>)]
          [] OTHER -> [err |-> NoErr, v |-> B(TRUE)]
    ELSE IF func = "eq_t" THEN
        [err |-> NoErr, v |-> B(x = S(<<"t">>))]
    ELSE
        CASE x.k = "str" -> [err |-> NoErr, v |-> x]
          [] x.k = "int" -> [err |-> NoErr, v |-> S(IntToChars(x.i))]
          [] x.k = "bool" -> [err |-> NoErr,
                              v |-> S(IF x.b THEN <<"T", "r", "u", "e">>
                                      ELSE <<"F", "a", "l", "s", "e">>)]

\* str.split(sep)
RECURSIVE split(_, _)
split(cs, sep) ==
    IF \A j \in 1..Len(cs) : cs[j] # sep THEN <<cs>>
    ELSE LET j == CHOOSE x \in 1..Len(cs) : cs[x] = sep /\ \A y \in 1..(x - 1) : cs[y] # sep
         IN <<SubSeq(cs, 1, j - 1)>> \o split(SubSeq(cs, j + 1, Len(cs)), sep)

NULLTEXT == <<"N", "U", "L", "L">>

RECURSIVE convertDataFromString(_, _, _)
RECURSIVE convertInsertableFromData(_, _, _)
RECURSIVE decodeItems(_, _, _, _, _)
RECURSIVE encodeItems(_, _, _, _, _, _)
RECURSIVE createLoop(_, _, _, _, _)
RECURSIVE create(_, _, _)
RECURSIVE instatiateRows(_, _, _, _, _)
RECURSIVE instatiateAll(_, _, _, _)
RECURSIVE encodeColumns(_, _, _, _, _)
RECURSIVE insert(_, _, _)
RECURSIVE update(_, _, _)
RECURSIVE insertOrUpdate(_, _, _)

\* one turn of the generator of Array.convertDataFromString, r being the
\* conversion of items[i]
decodeItem(r, t, items, i, acc) ==
    IF r.w.err # NoErr THEN r
    ELSE decodeItems(r.w, t, items, i + 1, Append(acc, r.v))

\* the generator of Array.convertDataFromString
decodeItems(w, t, items, i, acc) ==
    IF i > Len(items) THEN [w |-> w, v |-> L(acc)]
    ELSE decodeItem(convertDataFromString(w, t, items[i]), t, items, i, acc)

\* instatiateAll(...)[0] of ForeignKey.convertDataFromString, r being the
\* outcome of instatiateAll
firstInstance(r) ==
    IF r.w.err # NoErr THEN [w |-> r.w, v |-> None]
    ELSE IF Len(r.v) = 0 THEN [w |-> Raise(r.w, "IndexError"), v |-> None]
    ELSE [w |-> r.w, v |-> r.v[1]]

\* <type>.convertDataFromString(conn, string): [w, v]
convertDataFromString(w, t, string) ==
    CASE t.k = "LiteralType" ->
           LET r == applyConverter(t.converter, string)
           IN [w |-> IF r.err = NoErr THEN w ELSE Raise(w, r.err), v |-> r.v]
      [] t.k = "EnumType" -> [w |-> w, v |-> string]
      [] t.k \in {"NotNull", "PrimaryKey", "Unique"} ->
           convertDataFromString(w, t.type, string)
      [] t.k = "Array" ->
           IF string.k # "str" THEN [w |-> Raise(w, "TypeError"), v |-> None]
           ELSE LET parts == split(SubSeq(string.s, 2, Len(string.s) - 1), ",")
                    items == [j \in 1..Len(parts) |->
                                 IF parts[j] = NULLTEXT THEN None ELSE S(parts[j])]
                IN IF t.length # NoLength /\ Len(items) # t.length
                   THEN [w |-> Raise(w, "ValueError"), v |-> None]
                   ELSE decodeItems(w, t.type, items, 1, <<>>)
      [] t.k = "ForeignKey" ->
           IF Schema(t.model).primaryKey = NoColumn
           THEN [w |-> Raise(w, "TypeError"), v |-> None]
           ELSE firstInstance(instatiateAll(w, t.model, Schema(t.model).primaryKey, string))

\* one turn of the generator of Array.convertInsertableFromData, r being the
\* conversion of items[i]
encodeItem(r, t, items, i, acc, seen) ==
    IF r.w.err # NoErr
    THEN [w |-> r.w, v |-> None,
          d |-> L(Append(seen, r.d) \o SubSeq(items, i + 1, Len(items)))]
    ELSE encodeItems(r.w, t, items, i + 1, Append(acc, r.v), Append(seen, r.d))

\* the generator of Array.convertInsertableFromData; items are written back
\* because encoding a referenced record may change that record
encodeItems(w, t, items, i, acc, seen) ==
    IF i > Len(items) THEN [w |-> w, v |-> L(acc), d |-> L(seen)]
    ELSE encodeItem(convertInsertableFromData(w, t, items[i]), t, items, i, acc, seen)

\* the return of ForeignKey.convertInsertableFromData, r being what
\* data.insertOrUpdate(conn) left: the primary key of data
\* the key of the persisted record without the record the caller holds
\* learning it
keyOfPersisted_forgets(r, t, data) ==
    [w |-> r.w,
     v |-> r.v.f[Schema(t.model).primaryKey],
     d |-> IF data.k = "ref" THEN data ELSE r.v]

keyOfPersisted(r, t, data) ==
    [w |-> IF data.k = "ref" THEN [r.w EXCEPT !.heap[data.o] = r.v] ELSE r.w,
     v |-> r.v.f[Schema(t.model).primaryKey],
     d |-> IF data.k = "ref" THEN data ELSE r.v]

\* str(data) of a host value: 'None' for None, the numeral of an integer
strData(data) ==
    IF data.k = "none" THEN S(<<"N", "o", "n", "e">>) ELSE applyConverter("str", data).v

\* the enum encoder without its membership test
enumInsertable_unchecked(w, t, data) ==
    [w |-> w, v |-> strData(data), d |-> data]

\* EnumType.convertInsertableFromData(conn, data)
enumInsertable(w, t, data) ==
    IF strData(data).s \notin t.enums
    THEN [w |-> Raise(w, "TypeError"), v |-> None, d |-> data]
    ELSE [w |-> w, v |-> strData(data), d |-> data]

\* <type>.convertInsertableFromData(conn, data): [w, v, d], d being data as
\* the call leaves it (a referenced record is persisted in place)
convertInsertableFromData(w, t, data) ==
    CASE t.k = "LiteralType" ->
           LET r == applyConverter(t.inverse, data)
           IN [w |-> IF r.err = NoErr THEN w ELSE Raise(w, r.err), v |-> r.v, d |-> data]
      [] t.k = "EnumType" -> enumInsertable(w, t, data)
      [] t.k = "NotNull" ->
           IF data.k = "none" THEN [w |-> Raise(w, "TypeError"), v |-> None, d |-> data]
           ELSE convertInsertableFromData(w, t.type, data)
      [] t.k \in {"PrimaryKey", "Unique"} -> convertInsertableFromData(w, t.type, data)
      [] t.k = "Array" ->
           IF data.k # "list" THEN [w |-> Raise(w, "TypeError"), v |-> None, d |-> data]
           ELSE encodeItems(w, t.type, data.l, 1, <<>>, <<>>)
      [] t.k = "ForeignKey" ->
           IF Schema(t.model).primaryKey = NoColumn
           THEN [w |-> Raise(w, "TypeError"), v |-> None, d |-> data]
           ELSE IF data.k \in {"ref", "obj"}
           THEN keyOfPersisted(insertOrUpdate(w, Deref(w.heap, data),
                                              IF data.k = "ref" THEN data.o ELSE "anon"),
                               t, data)
           ELSE [w |-> Raise(w, "AttributeError"), v |-> None, d |-> data]

\* one turn of the first loop of WrappedClass._create, r being the conversion
\* of record[i]
createCell(r, m, record, i, acc) ==
    IF r.w.err # NoErr THEN [w |-> r.w, v |-> acc]
    ELSE createLoop(r.w, m, record, i + 1, Append(acc, r.v))

\* the first loop of WrappedClass._create: decode the cells in column order
createLoop(w, m, record, i, acc) ==
    IF i > Len(record) \/ i > Len(Schema(m).columns) THEN [w |-> w, v |-> acc]
    ELSE createCell(convertDataFromString(w, Schema(m).columns[i].type, record[i]),
                    m, record, i, acc)

\* _create leaving the object as it was
setFields_skipped(r, obj) == [w |-> r.w, v |-> obj]

\* the second loop of WrappedClass._create: setattr of the decoded cells r.v
setFields(r, obj) ==
    IF r.w.err # NoErr THEN [w |-> r.w, v |-> obj]
    ELSE [w |-> r.w,
          v |-> [obj EXCEPT !.f = [c \in DOMAIN obj.f |->
                    IF \E j \in 1..Len(r.v) : ColumnNames(obj.m)[j] = c
                    THEN r.v[CHOOSE j \in 1..Len(r.v) : ColumnNames(obj.m)[j] = c]
                    ELSE obj.f[c]]]]

\* WrappedClass._create(conn, record): [w, v], v the object afterwards
create(w, obj, record) == setFields(createLoop(w, obj.m, record, 1, <<>>), obj)

\* one turn of the loop of WrappedClass.instatiate, r being the object built
\* from rows[i]
instatiateRow(r, m, rows, i, acc) ==
    IF r.w.err # NoErr THEN [w |-> r.w, v |-> acc]
    ELSE instatiateRows(r.w, m, rows, i + 1, Append(acc, r.v))

\* the loop of WrappedClass.instatiate, run to its end by instatiateAll
instatiateRows(w, m, rows, i, acc) ==
    IF i > Len(rows) THEN [w |-> w, v |-> acc]
    ELSE LET blank == Obj(m, [c \in {Schema(m).columns[j].name : j \in 1..Len(Schema(m).columns)} |->
                                 IF InSeq(c, Schema(m).argsNames) THEN S(Chars[c]) ELSE None])
             record == [j \in 1..Len(Schema(m).columns) |->
                           cellText(rows[i][Schema(m).columns[j].name])]
         IN instatiateRow(create(w, blank, record), m, rows, i, acc)

\* instatiateAll returning every row of the table, whatever the query
instatiateAll_anyRow(w, m, col, lit) ==
    instatiateRows([w EXCEPT !.log = Append(@, Stmt("SELECT", m, lit, Cardinality(w.db[m])))],
                   m, SetToSeq(w.db[m]), 1, <<>>)

\* WrappedClass.instatiateAll(conn, 'WHERE col = lit'), or every row when col
\* is NoColumn: [w, v], v the sequence of objects built
instatiateAll(w, m, col, lit) ==
    LET rows == IF col = NoColumn THEN w.db[m]
                ELSE {r \in w.db[m] : Matches(r, col, lit)}
        w1 == [w EXCEPT !.log = Append(@, Stmt("SELECT", m, lit, Cardinality(rows)))]
    IN instatiateRows(w1, m, SetToSeq(rows), 1, <<>>)

\* The orders in which a cursor can return the rows of a table.
Orderings(rows) ==
    {s \in [1..Cardinality(rows) -> rows] : \A i, j \in 1..Cardinality(rows) : s[i] = s[j] => i = j}

\* cls.instatiate(conn): the generator before its first resumption
Generator(m) ==
    [k |-> "gen", m |-> m, state |-> "created", rows |-> <<>>, at |-> 0,
     delivered |-> <<>>, err |-> NoErr]

\* the generator g after the loop body has run on rows[at], r being what
\* the body built: the exception leaves the generator, or the object is
\* yielded
yield(g, r) ==
    [w |-> [r.w EXCEPT !.err = NoErr],
     v |-> IF r.w.err # NoErr THEN [g EXCEPT !.state = "raised", !.err = r.w.err]
           ELSE [g EXCEPT !.state = "suspended", !.delivered = @ \o r.v]]

\* the generator g with the cursor at the next record: StopIteration when
\* fetchone returns None, else the loop body on that record
fetchone(w, g) ==
    IF g.at + 1 > Len(g.rows)
    THEN [w |-> w, v |-> [g EXCEPT !.state = "exhausted", !.at = @ + 1]]
    ELSE yield([g EXCEPT !.at = @ + 1],
               instatiateRows(w, g.m, <<g.rows[g.at + 1]>>, 1, <<>>))

\* a generator that builds every remaining record before it hands any over
resume_eager(w, g, rows) ==
    LET g1 == IF g.state = "created" THEN [g EXCEPT !.rows = rows] ELSE g
        r == instatiateRows(w, g.m, SubSeq(g1.rows, g.at + 1, Len(g1.rows)), 1, <<>>)
    IN IF g.at + 1 > Len(g1.rows)
       THEN [w |-> w, v |-> [g1 EXCEPT !.state = "exhausted", !.at = @ + 1]]
       ELSE [w |-> [r.w EXCEPT !.err = NoErr],
             v |-> IF r.w.err # NoErr
                   THEN [g1 EXCEPT !.state = "raised", !.err = r.w.err,
                                   !.at = @ + Len(r.v) + 1]
                   ELSE [g1 EXCEPT !.state = "suspended", !.at = Len(g1.rows),
                                   !.delivered = @ \o r.v]]

\* next(g) on the generator of WrappedClass.instatiate: [w, v], v the
\* generator afterwards.  The first resumption executes the SELECT, whose
\* result the cursor holds as rows; every resumption fetches one record,
\* builds its object and yields it.
resume(w, g, rows) ==
    IF g.state = "created"
    THEN fetchone([w EXCEPT !.log = Append(@, Stmt("SELECT", g.m, None, Len(rows)))],
                  [g EXCEPT !.rows = rows])
    ELSE fetchone(w, g)

\* instantiateFromPrimaryKey querying without looking for a primary key
instantiateFromPrimaryKey_unguarded(w, m, primaryKey) ==
    firstInstance(instatiateAll(w, m, Schema(m).primaryKey, primaryKey))

\* WrappedClass.instantiateFromPrimaryKey(conn, primaryKey): [w, v]
instantiateFromPrimaryKey(w, m, primaryKey) ==
    IF Schema(m).primaryKey = NoColumn THEN [w |-> Raise(w, "TypeError"), v |-> None]
    ELSE firstInstance(instatiateAll(w, m, Schema(m).primaryKey, primaryKey))

\* one turn of the list comprehension of insert and update, r being the
\* conversion of the field of cols[i]
encodeColumn(r, obj, cols, i, data) ==
    encodeColumns(r.w, [obj EXCEPT !.f[cols[i].name] = r.d], cols, i + 1, Append(data, r.v))

\* the list comprehension of insert and update: [w, obj, data]
encodeColumns(w, obj, cols, i, data) ==
    IF i > Len(cols) \/ w.err # NoErr THEN [w |-> w, obj |-> obj, data |-> data]
    ELSE encodeColumn(convertInsertableFromData(w, cols[i].type, obj.f[cols[i].name]),
                      obj, cols, i, data)

\* the columns insert gives a value: those without an AUTO_FILLED default
argsColumns(m) ==
    SelectSeq(Schema(m).columns, LAMBDA c : InSeq(c.name, Schema(m).argsNames))

\* insert without reading the RETURNING record back into the object
insert_noReadBack(w, obj, who) ==
    LET e == encodeColumns(w, obj, argsColumns(obj.m), 1, <<>>)
        key == e.w.seq[obj.m] + 1
        row == [c \in DOMAIN obj.f |->
                   IF \E j \in 1..Len(argsColumns(obj.m)) : argsColumns(obj.m)[j].name = c
                   THEN e.data[CHOOSE j \in 1..Len(argsColumns(obj.m)) :
                                  argsColumns(obj.m)[j].name = c]
                   ELSE I(key)]
    IN IF e.w.err # NoErr THEN [w |-> e.w, v |-> e.obj]
       ELSE [w |-> [e.w EXCEPT !.db[obj.m] = @ \cup {row},
                               !.seq[obj.m] = key,
                               !.log = Append(@, Stmt("INSERT", obj.m, I(key), 1)),
                               !.origin = @ \cup {[m |-> obj.m, key |-> I(key), who |-> who]}],
             v |-> e.obj]

\* insert sending its statement even though a column failed to encode
insert_sendsAnyway(w, obj, who) ==
    LET e == encodeColumns(w, obj, argsColumns(obj.m), 1, <<>>)
        key == e.w.seq[obj.m] + 1
    IN [w |-> [e.w EXCEPT !.seq[obj.m] = key,
                          !.log = Append(@, Stmt("INSERT", obj.m, I(key), 1))],
        v |-> e.obj]

\* the INSERT ... RETURNING statement of insert and the _create that follows,
\* e being the encoded columns
insertEncoded(e, obj, who) ==
    LET sch == Schema(obj.m)
        cols == argsColumns(obj.m)
        key == e.w.seq[obj.m] + 1
        row == [c \in DOMAIN obj.f |->
                   IF \E j \in 1..Len(cols) : cols[j].name = c
                   THEN e.data[CHOOSE j \in 1..Len(cols) : cols[j].name = c]
                   ELSE IF baseType((CHOOSE d \in {sch.columns[x] : x \in 1..Len(sch.columns)} :
                                        d.name = c).type).type = "SERIAL"
                        THEN I(key) ELSE None]
        w1 == [e.w EXCEPT !.db[obj.m] = @ \cup {row},
                          !.seq[obj.m] = key,
                          !.log = Append(@, Stmt("INSERT", obj.m, row[sch.primaryKey], 1)),
                          !.origin = @ \cup {[m |-> obj.m, key |-> row[sch.primaryKey], who |-> who]}]
        record == [j \in 1..Len(sch.columns) |-> cellText(row[sch.columns[j].name])]
    IN IF e.w.err # NoErr THEN [w |-> e.w, v |-> e.obj]
       ELSE create(w1, e.obj, record)

\* WrappedClass.insert(conn): [w, v], v the object afterwards
insert(w, obj, who) ==
    insertEncoded(encodeColumns(w, obj, argsColumns(obj.m), 1, <<>>), obj, who)

\* update building its statement without executing it
updateEncoded_noExecute(e, obj, who) == [w |-> e.w, v |-> e.obj]

\* update whose statement has no WHERE clause keeping the other rows
updateEncoded_everyRow(e, obj, who) ==
    LET sch == Schema(obj.m)
        lit == primaryKeyValue(e.obj)
        hit == {r \in e.w.db[obj.m] : Matches(r, sch.primaryKey, lit)}
        row == [c \in DOMAIN obj.f |->
                   e.data[CHOOSE j \in 1..Len(sch.columns) : sch.columns[j].name = c]]
    IN IF e.w.err # NoErr THEN [w |-> e.w, v |-> e.obj]
       ELSE [w |-> [e.w EXCEPT
                      !.db[obj.m] = IF hit = {} THEN @ ELSE {row},
                      !.log = Append(@, Stmt("UPDATE", obj.m, lit, Cardinality(hit)))],
             v |-> e.obj]

\* the UPDATE statement of update, e being the encoded columns
updateEncoded(e, obj, who) ==
    LET sch == Schema(obj.m)
        lit == primaryKeyValue(e.obj)
        hit == {r \in e.w.db[obj.m] : Matches(r, sch.primaryKey, lit)}
        row == [c \in DOMAIN obj.f |->
                   e.data[CHOOSE j \in 1..Len(sch.columns) : sch.columns[j].name = c]]
    IN IF e.w.err # NoErr THEN [w |-> e.w, v |-> e.obj]
       ELSE [w |-> [e.w EXCEPT
                      !.db[obj.m] = IF hit = {} THEN @ ELSE (@ \ hit) \cup {row},
                      !.log = Append(@, Stmt("UPDATE", obj.m, lit, Cardinality(hit)))],
             v |-> e.obj]

\* WrappedClass.update(conn): [w, v]
update(w, obj, who) ==
    IF Schema(obj.m).primaryKey = NoColumn THEN [w |-> Raise(w, "TypeError"), v |-> obj]
    ELSE updateEncoded(encodeColumns(w, obj, Schema(obj.m).columns, 1, <<>>), obj, who)

\* the end of insertOrUpdate updating whether or not an instance was found
insertOrUpdateFound_alwaysUpdate(q, obj, who) ==
    IF q.w.err # NoErr THEN [w |-> q.w, v |-> obj]
    ELSE update(q.w, obj, who)

\* the end of insertOrUpdate deciding on the table as it is now, not on q
insertOrUpdateFound_looksAgain(q, obj, who) ==
    IF q.w.err # NoErr THEN [w |-> q.w, v |-> obj]
    ELSE IF \E r \in q.w.db[obj.m] : Matches(r, Schema(obj.m).primaryKey, primaryKeyValue(obj))
    THEN update(q.w, obj, who)
    ELSE insert(q.w, obj, who)

\* the end of insertOrUpdate, q being the instances found with the primary key
insertOrUpdateFound(q, obj, who) ==
    IF q.w.err # NoErr THEN [w |-> q.w, v |-> obj]
    ELSE IF Len(q.v) = 0 THEN insert(q.w, obj, who)
    ELSE update(q.w, obj, who)

\* the look-up of insertOrUpdate, r1 being what the first branch left
insertOrUpdateLookup(r1, who) ==
    IF r1.w.err # NoErr THEN r1
    ELSE insertOrUpdateFound(instatiateAll(r1.w, r1.v.m, Schema(r1.v.m).primaryKey,
                                           primaryKeyValue(r1.v)),
                             r1.v, who)

\* insertOrUpdate that persists nothing
insertOrUpdate_skipped(w, obj, who) == [w |-> w, v |-> obj]

\* insertOrUpdate without the look-up of the existing row
insertOrUpdate_noLookup(w, obj, who) ==
    IF Schema(obj.m).primaryKey = NoColumn THEN [w |-> Raise(w, "TypeError"), v |-> obj]
    ELSE insert(w, obj, who)

\* WrappedClass.insertOrUpdate(conn): [w, v]
insertOrUpdate(w, obj, who) ==
    IF Schema(obj.m).primaryKey = NoColumn THEN [w |-> Raise(w, "TypeError"), v |-> obj]
    ELSE insertOrUpdateLookup(IF primaryKeyValue(obj) = None THEN insert(w, obj, who)
                              ELSE [w |-> w, v |-> obj],
                              who)

\* ForeignKey.typeStatement declares the column REFERENCES the table of its
\* model: the database refuses to remove a row that a row of another table
\* refers to.
Referenced(d, m, rows) ==
    \E n \in Models : \E j \in 1..Len(Schema(n).columns) :
        LET col == Schema(n).columns[j]
        IN /\ baseType(col.type).k = "ForeignKey"
           /\ baseType(col.type).model = m
           /\ \E r \in d[n], x \in rows : r[col.name] = x[baseType(col.type).column]

\* WrappedClass.delete(conn): [w, v, ret], ret telling whether a row was removed
delete(w, obj) ==
    LET pk == Schema(obj.m).primaryKey
        lit == primaryKeyValue(obj)
        hit == {r \in w.db[obj.m] : Matches(r, pk, lit)}
    IN IF pk = NoColumn THEN [w |-> Raise(w, "TypeError"), v |-> obj, ret |-> FALSE]
       ELSE IF Referenced(w.db, obj.m, hit)
       THEN [w |-> [Raise(w, "ForeignKeyViolation") EXCEPT
                       !.log = Append(@, Stmt("DELETE", obj.m, lit, 0))],
             v |-> obj, ret |-> FALSE]
       ELSE [w |-> [w EXCEPT !.db[obj.m] = @ \ hit,
                             !.origin = {x \in @ : x.m # obj.m \/ \A r \in hit : r[pk] # x.key},
                             !.log = Append(@, Stmt("DELETE", obj.m, lit, Cardinality(hit)))],
             v |-> obj, ret |-> hit # {}]

\* mutate leaving the assignments of a failed block in place
mutate_keepsChanges(w, obj, who, persist, block, raises) ==
    LET after == [obj EXCEPT !.f = [c \in DOMAIN obj.f |->
                     IF c \in DOMAIN block THEN block[c] ELSE obj.f[c]]]
    IN IF raises THEN [w |-> Raise(w, "BlockError"), v |-> after]
       ELSE IF persist THEN update(w, after, who)
       ELSE [w |-> w, v |-> after]

\* WrappedClass.mutate(conn, persist) around a block that assigns block[c] to
\* the fields c in its domain and then raises or not: [w, v]
mutate(w, obj, who, persist, block, raises) ==
    LET initialValues == obj.f
        after == [obj EXCEPT !.f = [c \in DOMAIN obj.f |->
                     IF c \in DOMAIN block THEN block[c] ELSE obj.f[c]]]
    IN IF raises THEN [w |-> Raise(w, "BlockError"), v |-> [after EXCEPT !.f = initialValues]]
       ELSE IF persist THEN update(w, after, who)
       ELSE [w |-> w, v |-> after]

-----------------------------------------------------------------------------
(* The caller: a script holding one Person and one Order in variables and  *)
(* calling the operations of the package on them in any order.             *)

Roots == {"p1", "o1"}

ModelOf(o) == IF o = "o1" THEN "Order" ELSE "Person"

Names == {<<"a">>, <<"b">>}

\* The values a caller gives a field of a record it constructs or changes.
FieldValues(m, c) ==
    IF m = "Person" THEN {S(n) : n \in Names} \cup {None}
    ELSE {Ref("p1"),
          Obj("Person", [name |-> S(<<"a">>), id |-> None])}

\* cls(*args): the auto-filled fields start as None
New(m, args) ==
    Obj(m, [c \in {Schema(m).columns[j].name : j \in 1..Len(Schema(m).columns)} |->
               IF c \in DOMAIN args THEN args[c] ELSE None])

World == [db |-> db, seq |-> seq, heap |-> heap, origin |-> origin, log |-> <<>>,
          err |-> NoErr]

\* What is recorded of a call: the operation, its target and arguments, its
\* outcome (err, ret), and what held when it was made (the target's
\* primary-key value, whether a row had that key, and the primary-key value
\* of the record its foreign-key field referred to, the number of rows of
\* the target's table); for a class method, the class and the record returned;
\* for createTable, its flags and the database it was called on; for a call
\* on a record with a foreign-key field, what that field held and the record
\* it stood for.
NoCall == [op |-> "none", who |-> "", err |-> NoErr, ret |-> FALSE, persist |-> FALSE,
           raises |-> FALSE, col |-> "", val |-> None, pkBefore |-> None,
           rowBefore |-> FALSE, refPkBefore |-> None, nBefore |-> 0,
           cls |-> "", got |-> None, recreateSchema |-> FALSE, recreateTable |-> FALSE,
           before |-> None, refWas |-> None, refBefore |-> None]

HasRow(d, obj) ==
    \E r \in d[obj.m] : Matches(r, Schema(obj.m).primaryKey, primaryKeyValue(obj))

Call(op, o) ==
    [NoCall EXCEPT !.op = op, !.who = o, !.pkBefore = primaryKeyValue(heap[o]),
                   !.before = [cat |-> cat, db |-> db, seq |-> seq],
                   !.rowBefore = HasRow(db, heap[o]),
                   !.nBefore = Cardinality(db[ModelOf(o)]),
                   !.refWas = IF "customerID" \in DOMAIN heap[o].f
                              THEN heap[o].f.customerID ELSE None,
                   !.refBefore = IF "customerID" \in DOMAIN heap[o].f
                                 THEN Deref(heap, heap[o].f.customerID) ELSE None,
                   !.refPkBefore = IF "customerID" \in DOMAIN heap[o].f
                                      /\ heap[o].f.customerID.k \in {"ref", "obj"}
                                   THEN primaryKeyValue(Deref(heap, heap[o].f.customerID))
                                   ELSE None]

\* The effect of a call on the caller's object o that left world w and object v.
Commit(w, o, v, call) ==
    /\ w.seq["Person"] <= MaxKey
    /\ w.seq["Order"] <= MaxOrders
    /\ db' = w.db
    /\ seq' = w.seq
    /\ heap' = [w.heap EXCEPT ![o] = v]
    /\ origin' = w.origin
    /\ log' = w.log
    /\ last' = [call EXCEPT !.err = w.err]
    /\ UNCHANGED <<regDecl, regResult, cType, cData, cResult, cat, proc>>

Insert(o) ==
    LET r == insert(World, heap[o], o)
    IN /\ last.op = "none"
       /\ Commit(r.w, o, r.v, Call("insert", o))

Update(o) ==
    LET r == update(World, heap[o], o)
    IN /\ last.op = "none"
       /\ Commit(r.w, o, r.v, Call("update", o))

InsertOrUpdate(o) ==
    LET r == insertOrUpdate(World, heap[o], o)
    IN /\ last.op = "none"
       /\ Commit(r.w, o, r.v, Call("insertOrUpdate", o))

\* A delete may also follow an insert or a delete of the same object at once.
Delete(o) ==
    LET r == delete(World, heap[o])
    IN /\ \/ last.op = "none"
          \/ last.who = o /\ last.op \in {"insert", "delete"} /\ last.err = NoErr
       /\ Commit(r.w, o, r.v, [Call("delete", o) EXCEPT !.ret = r.ret])

Mutate(o) ==
    \E persist \in BOOLEAN, raises \in BOOLEAN :
    \E c \in {x \in DOMAIN heap[o].f : InSeq(x, Schema(ModelOf(o)).argsNames)} :
    \E v \in FieldValues(ModelOf(o), c) :
        LET r == mutate(World, heap[o], o, persist, c :> v, raises)
        IN /\ last.op = "none"
           /\ v # heap[o].f[c]
           /\ Commit(r.w, o, r.v,
                     [Call("mutate", o) EXCEPT !.persist = persist, !.raises = raises,
                                               !.col = c, !.val = v])
    
\* obj.c = v outside any call of the package
Assign(o) ==
    \E c \in {x \in DOMAIN heap[o].f : InSeq(x, Schema(ModelOf(o)).argsNames)} :
    \E v \in FieldValues(ModelOf(o), c) :
        /\ last.op = "none"
        /\ v # heap[o].f[c]
        /\ heap' = [heap EXCEPT ![o].f[c] = v]
        /\ UNCHANGED <<db, seq, origin, log, last, regDecl, regResult, cType, cData,
                       cResult, cat, proc>>

\* The caller has looked at the outcome of the call and goes on.
Return ==
    /\ last.op # "none"
    /\ last' = NoCall
    /\ log' = <<>>
    /\ UNCHANGED <<db, seq, heap, origin, regDecl, regResult, cType, cData, cResult, cat, proc>>

NoReg == [err |-> "none", columns |-> <<>>, primaryKey |-> NoColumn, argsNames |-> <<>>]

NoCodec == [op |-> "none", err |-> NoErr, v |-> None]

Init ==
    /\ db = [m \in Models |-> {}]
    /\ seq = [m \in Models |-> 0]
    /\ \E n1 \in FieldValues("Person", "name"),
          c \in FieldValues("Order", "customerID") :
          heap = [o \in Roots |->
                    IF o = "p1" THEN New("Person", [name |-> n1])
                    ELSE New("Order", [customerID |-> c])]
    /\ origin = {}
    /\ log = <<>>
    /\ last = NoCall
    /\ regDecl = <<>>
    /\ regResult = NoReg
    /\ cType = INTEGER
    /\ cData = None
    /\ cResult = NoCodec
    /\ cat = Installed
    /\ proc = Idle

\* update(conn) on a record of Misc, the type without a primary key
UpdateKeyless ==
    LET r == update(World, New("Misc", [boolean |-> B(TRUE)]), "anon")
    IN /\ last.op = "none"
       /\ db' = r.w.db
       /\ seq' = r.w.seq
       /\ heap' = r.w.heap
       /\ origin' = r.w.origin
       /\ log' = r.w.log
       /\ last' = [NoCall EXCEPT !.op = "update", !.who = "anon", !.cls = "Misc",
                                 !.err = r.w.err,
                                 !.before = [cat |-> cat, db |-> db, seq |-> seq]]
       /\ UNCHANGED <<regDecl, regResult, cType, cData, cResult, cat, proc>>

Next ==
    \/ \E o \in Roots :
        \/ Insert(o)
        \/ Update(o)
        \/ InsertOrUpdate(o)
        \/ Delete(o)
        \/ Mutate(o)
        \/ Assign(o)
    \/ UpdateKeyless
    \/ Return

Spec == Init /\ [][Next]_vars


-----------------------------------------------------------------------------
(* Properties of the calls on the caller's objects.                         *)

\* The rows of o's table that were inserted for the caller's object o.
RowsBy(d, orig, o) ==
    {r \in d[ModelOf(o)] : [m |-> ModelOf(o), key |-> r.id, who |-> o] \in orig}

\* What a column holds for a field value: the value itself, and for a
\* referenced record the primary key of that record.
Stored(h, v) == IF v.k \in {"ref", "obj"} THEN primaryKeyValue(Deref(h, v)) ELSE v

\* The positions of the statements of kind ops on the table of model m.
Stmts(ops, m) == {i \in 1..Len(log) : log[i].op \in ops /\ log[i].m = m}

Writes == {"INSERT", "UPDATE"}

\* o has been persisted by insertOrUpdate alone so far: no row, or the one row
\* its primary key names.
OnlyUpserted(d, orig, h, o) ==
    \/ RowsBy(d, orig, o) = {}
    \/ /\ Cardinality(RowsBy(d, orig, o)) = 1
       /\ \A r \in RowsBy(d, orig, o) : r.id = primaryKeyValue(h[o])

OneRowOfFields(d, orig, h, o) ==
    /\ Cardinality(RowsBy(d, orig, o)) = 1
    /\ primaryKeyValue(h[o]) # None
    /\ \A r \in RowsBy(d, orig, o) :
          /\ r.id = primaryKeyValue(h[o])
          /\ \A c \in DOMAIN h[o].f : r[c] = Stored(h, h[o].f[c])

\* C1: after any number n >= 1 of successive insertOrUpdate calls on a record
\* whose primary key is auto-filled, the table holds exactly one row that
\* originates from the record, the record's primary-key value is set and is the
\* key of that row, and the columns of the row equal the fields of the record.
\* Stated as the step of the induction on n: a successful call on a record
\* that so far has no row or the one row its key names leaves exactly that.
C1_InsertOrUpdateOneRow ==
    [][\A o \in Roots :
          (/\ last'.op = "insertOrUpdate" /\ last'.who = o /\ last'.err = NoErr
           /\ OnlyUpserted(db, origin, heap, o))
          => OneRowOfFields(db', origin', heap', o)]_vars

C1_Witness ==
    /\ last.op = "insertOrUpdate" /\ last.err = NoErr
    /\ last.rowBefore
    /\ OneRowOfFields(db, origin, heap, last.who)

\* C2: each successful insertOrUpdate call issues exactly one write for the
\* record itself: one INSERT (and no UPDATE) when the primary key is unset or
\* names no row, one UPDATE (and no INSERT) when the row exists.
C2_OneWritePerCall ==
    (last.op = "insertOrUpdate" /\ last.err = NoErr)
    => LET own == Stmts(Writes, ModelOf(last.who))
       IN /\ Cardinality(own) = 1
          /\ \A i \in own :
                log[i].op = IF last.pkBefore # None /\ last.rowBefore THEN "UPDATE"
                            ELSE "INSERT"

\* C3: insertOrUpdate on a record that still holds the primary key of a row
\* that has been removed inserts exactly one new row, and afterwards the
\* record's primary-key value is the key of a row of the table.
C3_ReinsertAfterDelete ==
    (/\ last.op = "insertOrUpdate" /\ last.err = NoErr
     /\ last.pkBefore # None /\ ~last.rowBefore)
    => /\ Cardinality(Stmts({"INSERT"}, ModelOf(last.who))) = 1
       /\ Cardinality(db[ModelOf(last.who)]) = last.nBefore + 1
       /\ primaryKeyValue(heap[last.who]) # None
       /\ HasRow(db, heap[last.who])

C3_Witness ==
    /\ last.op = "insertOrUpdate" /\ last.err = NoErr
    /\ last.pkBefore # None /\ ~last.rowBefore
    /\ origin # {}
    /\ primaryKeyValue(heap[last.who]) # last.pkBefore

\* C4: inserting an Order whose customerID holds a Person without primary key
\* first writes the Person's row and only then the Order's row; the value
\* stored in the customerID column is the key assigned to the Person; and
\* fetching the Order afterwards yields a customerID that is a record equal
\* field by field to the Person's row.
C4_CascadeBeforeInsert ==
    (/\ last.op = "insert" /\ last.who = "o1" /\ last.err = NoErr
     /\ last.refPkBefore = None)
    => LET a == heap["o1"]
           b == Deref(heap, a.f.customerID)
           f == instatiateAll(World, "Order", "id", primaryKeyValue(a))
       IN /\ \E i \in Stmts({"INSERT"}, "Person") :
                /\ log[i].key = primaryKeyValue(b)
                /\ \A j \in Stmts(Writes, "Person") : i <= j
          /\ Cardinality(Stmts(Writes, "Order")) = 1
          /\ \A j \in Stmts(Writes, "Order") :
                /\ log[j].op = "INSERT"
                /\ \A i \in Stmts(Writes, "Person") : i < j
          /\ primaryKeyValue(b) # None
          /\ \E ra \in db["Order"] :
                /\ ra.id = primaryKeyValue(a)
                /\ ra.customerID = primaryKeyValue(b)
          /\ f.w.err = NoErr
          /\ Len(f.v) = 1
          /\ \E rb \in db["Person"] :
                /\ rb.id = primaryKeyValue(b)
                /\ f.v[1].f.customerID = Obj("Person", rb)

C4_Witness ==
    /\ last.op = "insert" /\ last.who = "o1" /\ last.err = NoErr
    /\ last.refPkBefore = None
    /\ Stmts({"INSERT"}, "Person") # {}
    /\ Cardinality(db["Person"]) = 2

\* C5: when the cascaded persist of the Person referenced by an Order fails,
\* the error reaches the caller of the Order's insert, update or
\* insertOrUpdate as it was raised, and no INSERT or UPDATE is issued for the
\* Order's row.
C5_CascadeFailure ==
    (/\ last.op \in {"insert", "update", "insertOrUpdate"} /\ last.who = "o1"
     /\ last.err # NoErr)
    => /\ last.err = "TypeError"
       /\ Stmts(Writes, "Order") = {}
       /\ Cardinality(db["Order"]) = last.nBefore

C5_Witness ==
    /\ last.op = "insert" /\ last.who = "o1"
    /\ last.err = "TypeError"
    /\ Deref(heap, heap["o1"].f.customerID).f.name = None
    /\ Stmts(Writes, "Order") = {}

\* C6: delete returns true exactly when it removed the row keyed by the
\* record's primary-key value; of the delete calls that follow the insert of
\* a record with no insert in between, the first returns true and every
\* later one returns false.
C6_DeleteOnce ==
    [][(last'.op = "delete" /\ last'.err = NoErr)
       => LET o == last'.who
              m == ModelOf(last'.who)
          IN /\ last'.ret <=> HasRow(db, heap[o])
             /\ last'.ret <=> db'[m] # db[m]
             /\ db'[m] = {r \in db[m] : r.id # primaryKeyValue(heap[o])}
             /\ ~HasRow(db', heap'[o])
             /\ (last.op = "insert" /\ last.who = o) => last'.ret
             /\ (last.op = "delete" /\ last.who = o) => ~last'.ret]_vars

C6_Witness ==
    /\ last.op = "delete" /\ last.err = NoErr
    /\ last.pkBefore # None /\ ~last.rowBefore
    /\ ~last.ret
    /\ Len(log) = 1 /\ log[1].n = 0

\* C7: when the block of a mutate scope raises, every field of the record has
\* the value it had on entry, nothing is persisted (no statement is issued and
\* the tables are unchanged), and the error of the block reaches the caller.
C7_MutateRollback ==
    [][(last'.op = "mutate" /\ last'.raises)
       => /\ last'.err = "BlockError"
          /\ heap'[last'.who] = heap[last'.who]
          /\ heap' = heap
          /\ db' = db
          /\ log' = <<>>]_vars

C7_Witness ==
    /\ last.op = "mutate" /\ last.raises
    /\ last.err = "BlockError"
    /\ last.rowBefore
    /\ heap[last.who].f[last.col] # last.val

\* What a field holds after the block assigned val to it: val, and for a
\* record that the scope has persisted since, that record.
Kept(v, val) ==
    IF val.k = "obj" THEN v.k = "obj" /\ v.m = val.m /\ v.f.name = val.f.name
    ELSE v = val

-----------------------------------------------------------------------------
(* Registration on its own: a record type is declared with one to three    *)
(* fields and the decorator is applied to it.                              *)

\* The chains of at most n modifiers around the types of bases.
RECURSIVE Chains(_, _)
Chains(bases, n) ==
    IF n = 0 THEN bases
    ELSE LET inner == Chains(bases, n - 1)
         IN inner \cup {NotNull(t) : t \in inner} \cup {PrimaryKey(t) : t \in inner}
                  \cup {Unique(t) : t \in inner} \cup {Array(t, NoLength) : t \in inner}

\* An annotation that is no ColumnType, such as the builtin int.
NotAType == [k |-> "builtin", type |-> "int"]

Field(name, type, default) == [name |-> name, type |-> type, default |-> default]

FirstFields ==
    {Field("id", t, d) : t \in Chains({INTEGER}, MaxChain), d \in {"AUTO_FILLED", "NO_DEFAULT"}}

SecondFields ==
    {Field("name", t, "NO_DEFAULT") : t \in Chains({INTEGER}, MaxChain)}
    \cup {Field(n, t, "NO_DEFAULT") : n \in {"conn", "1x", "a60", "cafe"},
                                     t \in {TEXT, PrimaryKey(INTEGER)}}
    \cup {Field("name", t, d) : t \in {TEXT, PrimaryKey(INTEGER)}, d \in {"MISSING", "other"}}
    \cup {Field("name", NotAType, "NO_DEFAULT")}

ThirdFields ==
    {Field("quantity", t, "NO_DEFAULT") : t \in {INTEGER, PrimaryKey(INTEGER)}}

Declarations ==
    {<<a>> : a \in FirstFields}
    \cup {<<a, b>> : a \in FirstFields, b \in SecondFields}
    \cup {<<a, b, c>> : a \in FirstFields, b \in SecondFields, c \in ThirdFields}

Quiet ==
    /\ db = [m \in Models |-> {}]
    /\ seq = [m \in Models |-> 0]
    /\ heap = [o \in Roots |->
                 IF o = "p1" THEN New("Person", [name |-> S(<<"a">>)])
                 ELSE New("Order", [customerID |-> Ref("p1")])]
    /\ origin = {}
    /\ log = <<>>
    /\ last = NoCall

InitReg ==
    /\ Quiet
    /\ regDecl \in Declarations
    /\ regResult = NoReg
    /\ cType = INTEGER
    /\ cData = None
    /\ cResult = NoCodec
    /\ cat = Installed
    /\ proc = Idle

\* @model(...) applied to the declared type
Register ==
    /\ regResult.err = "none"
    /\ regResult' = wrapped(regDecl)
    /\ UNCHANGED <<db, seq, heap, origin, log, last, regDecl, cType, cData, cResult, cat, proc>>

SpecReg == InitReg /\ [][Register]_vars


\* A type resolves primary when it is PrimaryKey under any chain of modifiers.
RECURSIVE ResolvesPrimary(_)
ResolvesPrimary(t) ==
    \/ t.k = "PrimaryKey"
    \/ t.k \in Modifiers /\ ResolvesPrimary(t.type)

PrimaryColumns(decl) == {j \in 1..Len(decl) : ResolvesPrimary(decl[j].type)}

\* Every field has a valid column name, a column type as its annotation and
\* one of the defaults MISSING, NO_DEFAULT, AUTO_FILLED.
WellFormed(decl) ==
    \A j \in 1..Len(decl) :
        /\ fromField(decl[j]) = NoErr
        /\ decl[j].default \in {"MISSING", "NO_DEFAULT", "AUTO_FILLED"}

\* Registration failed exactly when two or more columns resolve primary, sent
\* no statement, and otherwise left the one primary column as the primary key,
\* or none.
PrimaryKeyRule ==
    /\ regResult.err # NoErr <=> Cardinality(PrimaryColumns(regDecl)) >= 2
    /\ log = <<>> /\ db = [m \in Models |-> {}]
    /\ regResult.err = NoErr
       => /\ PrimaryColumns(regDecl) = {} => regResult.primaryKey = NoColumn
          /\ \A j \in PrimaryColumns(regDecl) : regResult.primaryKey = regDecl[j].name

-----------------------------------------------------------------------------
(* The codec on its own: one column type is handed one value.              *)

\* gender of the example script
Gender ==
    EnumType("gender", {<<"m", "a", "l", "e">>, <<"f", "e", "m", "a", "l", "e">>,
                        <<"n", "o", "n", "b", "i", "n", "a", "r", "y">>})

\* an enum whose literals are numerals
Level == EnumType("level", {<<"1">>, <<"2">>})

\* Array[T, 2]: arrays declared with a fixed length
FixedArrays == {Array(t, 2) : t \in {INTEGER, TEXT, Array(INTEGER, NoLength)}}

CodecTypes ==
    Chains({INTEGER, SERIAL, TEXT, BOOL, Gender, Level, ForeignKey("Person", "id")}, MaxChain)
    \cup {ForeignKey("Person", "name"), Array(ForeignKey("Person", "id"), NoLength)}
    \cup FixedArrays

\* Host values handed to convertInsertableFromData of a type.
RECURSIVE Values(_)
Values(t) ==
    CASE t.k = "LiteralType" ->
           CASE t.inverse = "int" -> {None, I(1), S(<<"2">>)}
             [] t.inverse = "bool" -> {None, B(TRUE), B(FALSE)}
             [] OTHER -> {None, S(<<"a">>), I(1)}
      [] t.k = "EnumType" -> {None, S(<<"m", "a", "l", "e">>), S(<<"x">>), I(1), S(<<"2">>)}
      [] t.k = "ForeignKey" ->
           {None, Ref("p1"), Obj("Person", [name |-> S(<<"b">>), id |-> None])}
      [] t.k \in {"NotNull", "PrimaryKey", "Unique"} -> Values(t.type)
      [] t.k = "Array" ->
           {None, L(<<>>)} \cup {L(<<x>>) : x \in Values(t.type)}
                           \cup {L(<<x, None>>) : x \in Values(t.type)}
                           \cup {L(<<x, x>>) : x \in {v \in Values(t.type) : v.k = "ref"}}

\* The characters of a string the database writes between double quotes
\* inside an array.
Special == {"{", "}", ",", "\"", "\\", " "}

RECURSIVE escaped(_)
escaped(cs) ==
    IF cs = <<>> THEN <<>>
    ELSE (IF Head(cs) \in {"\"", "\\"} THEN <<"\\", Head(cs)>> ELSE <<Head(cs)>>)
         \o escaped(Tail(cs))

\* The text the database returns for an array value (array_out): elements
\* separated by commas between braces, NULL for a null element, a string
\* element between double quotes, with its quotes and backslashes escaped,
\* when it is empty, is the word NULL or holds a special character.
RECURSIVE arrayOut(_)
RECURSIVE arrayOutItems(_, _)
arrayOutItems(xs, i) ==
    IF i > Len(xs) THEN <<>>
    ELSE (IF i > 1 THEN <<",">> ELSE <<>>) \o arrayOut(xs[i]) \o arrayOutItems(xs, i + 1)

arrayOut(v) ==
    CASE v.k = "none" -> NULLTEXT
      [] v.k = "int" -> IntToChars(v.i)
      [] v.k = "bool" -> IF v.b THEN <<"t">> ELSE <<"f">>
      [] v.k = "str" ->
           IF v.s = <<>> \/ v.s = NULLTEXT \/ \E j \in 1..Len(v.s) : v.s[j] \in Special
           THEN <<"\"">> \o escaped(v.s) \o <<"\"">>
           ELSE v.s
      [] v.k = "list" -> <<"{">> \o arrayOutItems(v.l, 1) \o <<"}">>

\* Strings holding the characters { } " , \ and arrays of them.
Strings ==
    {<<"a">>, <<"a", ",", "b">>, <<"{">>, <<"}">>, <<"\"">>, <<"\\">>, <<"a", " ", "b">>}

StringArrays ==
    {L(<<S(x)>>) : x \in Strings} \cup {L(<<S(x), S(<<"a">>)>>) : x \in Strings}

\* Texts handed to convertDataFromString of a type: what the database
\* returns for a cell of that type.
RECURSIVE Wires(_)
Wires(t) ==
    CASE t.k = "LiteralType" ->
           CASE t.converter = "int" -> {None, S(<<"1">>), S(<<"2">>)}
             [] t.converter = "eq_t" -> {None, S(<<"t">>), S(<<"f">>)}
             [] OTHER -> {None, S(<<"a">>)}
      [] t.k = "EnumType" -> {None} \cup {S(e) : e \in t.enums}
      [] t.k = "ForeignKey" ->
           IF t.column = "id" THEN {None, S(<<"1">>), S(<<"2">>)}
           ELSE {None, S(<<"1">>), S(<<"a">>)}
      [] t.k \in {"NotNull", "PrimaryKey", "Unique"} -> Wires(t.type)
      [] t.k = "Array" ->
           {None, S(<<"{", "}">>)}
           \cup {S(<<"{">> \o x.s \o <<"}">>) : x \in Wires(t.type) \ {None}}
           \cup {S(<<"{">> \o x.s \o <<",", "N", "U", "L", "L", "}">>) :
                    x \in Wires(t.type) \ {None}}
           \cup (IF t.type.k = "Array"
                 THEN {S(<<"{">> \o x.s \o <<",">> \o x.s \o <<"}">>) :
                          x \in Wires(t.type) \ {None}}
                 ELSE {S(<<"{">> \o x.s \o <<",">> \o y.s \o <<"}">>) :
                          x \in Wires(t.type) \ {None}, y \in Wires(t.type) \ {None}})
           \cup IF t.type = TEXT THEN {S(arrayOut(xs)) : xs \in StringArrays} ELSE {}

InitCodec ==
    /\ \/ /\ db = [m \in Models |-> {}]
          /\ seq = [m \in Models |-> 0]
       \/ /\ db = [m \in Models |->
                     IF m = "Person" THEN {[name |-> S(<<"a">>), id |-> I(1)]} ELSE {}]
          /\ seq = [m \in Models |-> IF m = "Person" THEN 1 ELSE 0]
    /\ heap = [o \in Roots |->
                 IF o = "p1" THEN New("Person", [name |-> S(<<"a">>)])
                 ELSE New("Order", [customerID |-> Ref("p1")])]
    /\ origin = {}
    /\ log = <<>>
    /\ last = NoCall
    /\ regDecl = <<>>
    /\ regResult = NoReg
    /\ cType \in CodecTypes
    /\ cData \in Values(cType) \cup Wires(cType)
    /\ cResult = NoCodec
    /\ cat = Installed
    /\ proc = Idle

CommitCodec(w, op, v) ==
    /\ w.seq["Person"] <= MaxKey
    /\ db' = w.db
    /\ seq' = w.seq
    /\ heap' = w.heap
    /\ origin' = w.origin
    /\ log' = w.log
    /\ cResult' = [op |-> op, err |-> w.err, v |-> v]
    /\ UNCHANGED <<last, regDecl, regResult, cType, cData, cat, proc>>

\* cType.convertInsertableFromData(conn, cData)
Encode ==
    /\ cResult.op = "none"
    /\ cData \in Values(cType)
    /\ LET r == convertInsertableFromData(World, cType, cData)
       IN CommitCodec(r.w, "encode", r.v)

\* cType.convertDataFromString(conn, cData)
Decode ==
    /\ cResult.op = "none"
    /\ cData \in Wires(cType)
    /\ LET r == convertDataFromString(World, cType, cData)
       IN CommitCodec(r.w, "decode", r.v)

\* cType.convertDataFromString(conn, <the encoded value>), or the failed
\* encoding itself
decodeEncoded(r, t) ==
    IF r.w.err # NoErr THEN [w |-> r.w, v |-> None]
    ELSE convertDataFromString(r.w, t, r.v)

\* cType.convertDataFromString(conn, cType.convertInsertableFromData(conn, cData))
RoundTrip ==
    /\ cResult.op = "none"
    /\ cData \in Values(cType)
    /\ LET r == decodeEncoded(convertInsertableFromData(World, cType, cData), cType)
       IN CommitCodec(r.w, "roundtrip", r.v)

SpecCodec == InitCodec /\ [][Encode \/ Decode \/ RoundTrip]_vars

\* The wrapper chain of a type contains NotNull.
RECURSIVE HasNotNull(_)
HasNotNull(t) ==
    \/ t.k = "NotNull"
    \/ t.k \in Modifiers /\ HasNotNull(t.type)

\* C10: encoding null through a type whose wrapper chain contains NotNull
\* fails with an error and returns no encoded value; encoding null through
\* the same type with the NotNull wrappers removed succeeds.
C10_NotNullRejectsNull ==
    (cResult.op = "encode" /\ cData = None)
    => /\ HasNotNull(cType) => (cResult.err # NoErr /\ cResult.v = None)
       /\ ~HasNotNull(cType) => cResult.err = NoErr

\* C11: for every column type whose modifier chain contains no NotNull,
\* encoding null returns null and decoding null returns null, without an
\* error and without a statement sent to the database.
C11_NullPropagates ==
    (cResult.op # "none" /\ cData = None /\ ~HasNotNull(cType))
    => /\ cResult.err = NoErr
       /\ cResult.v = None
       /\ log = <<>>

\* C12: an EnumType encodes a value exactly when str(value) is one of its
\* literals, and then returns that literal; every other value fails with an
\* error. Decoding returns the stored literal unchanged.
C12_EnumClosed ==
    /\ (cType.k = "EnumType" /\ cResult.op = "encode")
       => IF strData(cData).s \in cType.enums
          THEN cResult.err = NoErr /\ cResult.v = strData(cData)
          ELSE cResult.err # NoErr /\ cResult.v = None
    /\ (cType.k = "EnumType" /\ cResult.op = "decode")
       => cResult.err = NoErr /\ cResult.v = cData

\* an integer whose numeral is a literal has been encoded to that literal
C12_Witness ==
    /\ cType = Level
    /\ cResult.op = "encode"
    /\ cData = I(1)
    /\ cResult.v = S(<<"1">>)

\* a value outside the literals of gender has been refused
C12_WitnessRefused ==
    /\ cType = Gender
    /\ cResult.op = "encode"
    /\ cData = S(<<"x">>)
    /\ cResult.err = "TypeError"

\* A value of the legal domain of a scalar or enum type.
Legal(t, v) ==
    CASE t.k = "EnumType" -> v.k = "str" /\ v.s \in t.enums
      [] t.k = "LiteralType" ->
           CASE t.inverse = "int" -> v.k = "int"
             [] t.inverse = "bool" -> v.k = "bool"
             [] OTHER -> v.k = "str"
      [] OTHER -> FALSE

\* C13: for INTEGER and SERIAL over integers, TEXT over strings, BOOL over
\* true and false, and every EnumType over its literals, decoding the
\* encoding of a legal value gives the value back.
C13_ScalarRoundTrip ==
    (cResult.op = "roundtrip" /\ Legal(cType, cData))
    => cResult.err = NoErr /\ cResult.v = cData

\* the same for every listed type but BOOL
C13_RoundTripButBool ==
    (cResult.op = "roundtrip" /\ Legal(cType, cData) /\ cType # BOOL)
    => cResult.err = NoErr /\ cResult.v = cData

-----------------------------------------------------------------------------
(* Further properties of the calls on the caller's objects.                *)

\* The fields of a record with the caller's objects put in place of the
\* references to them: what the generated __eq__ compares.
FieldsOf(h, obj) == [c \in DOMAIN obj.f |-> Deref(h, obj.f[c])]

\* The row of obj's table whose key is obj's primary-key value, as the
\* record of texts a statement returns for it.
RecordOf(d, obj) ==
    LET row == CHOOSE r \in d[obj.m] : Matches(r, Schema(obj.m).primaryKey, primaryKeyValue(obj))
    IN [j \in 1..Len(Schema(obj.m).columns) |-> cellText(row[Schema(obj.m).columns[j].name])]

\* dec is the decoding of the cells of a record, in column order
DecodesTo(dec, h, obj) ==
    /\ dec.w.err = NoErr
    /\ Len(dec.v) = Len(Schema(obj.m).columns)
    /\ \A j \in 1..Len(dec.v) :
          Deref(h, obj.f[Schema(obj.m).columns[j].name]) = dec.v[j]

\* q is a fetch that found exactly obj
FetchedAlone(q, h, obj) ==
    /\ q.w.err = NoErr
    /\ Len(q.v) = 1
    /\ FieldsOf(q.w.heap, q.v[1]) = FieldsOf(h, obj)

\* C14: after a successful insert(r) the table has exactly one more row
\* than before, every field of r is the decoded value of the corresponding
\* cell of the row the INSERT returned, the primary-key value of r is the key
\* of the new row, and a fetch filtered by that key returns one record equal
\* field by field to r.
C14_InsertReadsBack ==
    (last.op = "insert" /\ last.err = NoErr)
    => /\ Cardinality(db[ModelOf(last.who)]) = last.nBefore + 1
       /\ primaryKeyValue(heap[last.who]) = I(seq[ModelOf(last.who)])
       /\ HasRow(db, heap[last.who])
       /\ DecodesTo(createLoop(World, ModelOf(last.who), RecordOf(db, heap[last.who]), 1, <<>>),
                    heap, heap[last.who])
       /\ FetchedAlone(instatiateAll(World, ModelOf(last.who),
                                     Schema(ModelOf(last.who)).primaryKey,
                                     primaryKeyValue(heap[last.who])),
                       heap, heap[last.who])

\* an Order whose customer was given by reference has been inserted and now
\* holds the Person read back from the database
C14_Witness ==
    /\ last.op = "insert"
    /\ last.err = NoErr
    /\ last.who = "o1"
    /\ heap["o1"].f.customerID.k = "obj"
    /\ heap["o1"].f.id = I(1)

\* C15: update on a record whose primary-key value matches no row of the
\* table raises an error.
C15_UpdateMissingRaises ==
    (last.op = "update" /\ ~last.rowBefore) => last.err # NoErr

-----------------------------------------------------------------------------
(* Fetching by primary key on its own: the tables hold some of the rows     *)
(* the script can have stored, and a record is fetched by a key.            *)

\* The Person tables with keys up to MaxKey.
PersonTables ==
    {{[name |-> S(f[i]), id |-> I(i)] : i \in {j \in 1..MaxKey : f[j] # <<>>}} :
        f \in [1..MaxKey -> Names \cup {<<>>}]}

\* The Order tables with keys up to MaxOrders whose customers are rows of persons.
OrderTables(persons) ==
    {{[id |-> I(i), customerID |-> I(f[i])] : i \in {j \in 1..MaxOrders : f[j] # 0}} :
        f \in [1..MaxOrders -> {0} \cup {r.id.i : r \in persons}]}

\* The keys a caller asks for.
FetchKeys == {None} \cup {I(i) : i \in 1..(MaxKey + 1)}

InitFetch ==
    /\ \E persons \in PersonTables : \E orders \in OrderTables(persons) :
          db = [m \in Models |-> CASE m = "Person" -> persons
                                   [] m = "Order" -> orders
                                   [] OTHER -> {}]
    /\ seq = [m \in Models |-> CASE m = "Person" -> MaxKey
                                 [] m = "Order" -> MaxOrders
                                 [] OTHER -> 0]
    /\ heap = [o \in Roots |->
                 IF o = "p1" THEN New("Person", [name |-> S(<<"a">>)])
                 ELSE New("Order", [customerID |-> Ref("p1")])]
    /\ origin = {}
    /\ log = <<>>
    /\ last = NoCall
    /\ regDecl = <<>>
    /\ regResult = NoReg
    /\ cType = INTEGER
    /\ cData = None
    /\ cResult = NoCodec
    /\ cat = Installed
    /\ proc = Idle

\* cls.instantiateFromPrimaryKey(conn, key)
InstantiateFromPrimaryKey(m, key) ==
    LET r == instantiateFromPrimaryKey(World, m, key)
    IN /\ last.op = "none"
       /\ db' = r.w.db
       /\ seq' = r.w.seq
       /\ heap' = r.w.heap
       /\ origin' = r.w.origin
       /\ log' = r.w.log
       /\ last' = [NoCall EXCEPT !.op = "fetch", !.cls = m, !.val = key,
                                 !.err = r.w.err, !.got = r.v]
       /\ UNCHANGED <<regDecl, regResult, cType, cData, cResult, cat, proc>>

SpecFetch ==
    InitFetch /\ [][(\E m \in Models, key \in FetchKeys : InstantiateFromPrimaryKey(m, key))
                    \/ Return]_vars

\* The record a row of table m stands for: its cells, with the referenced
\* Person in place of an Order's customerID.
RecordFor(d, m, row) ==
    IF m = "Order"
    THEN Obj(m, [id |-> row.id,
                 customerID |-> Obj("Person", CHOOSE p \in d["Person"] : p.id = row.customerID)])
    ELSE Obj(m, row)

C16_WitnessNoKey ==
    /\ last.op = "fetch"
    /\ last.cls = "Misc"
    /\ last.err = "TypeError"

\* a fetch by a key no row has has failed
C16_WitnessMissing ==
    /\ last.op = "fetch"
    /\ last.cls = "Person"
    /\ last.val = I(1)
    /\ last.err = "IndexError"

-----------------------------------------------------------------------------
(* Properties of the array codec.                                          *)

\* C19: decoding the textual empty array "{}" through any Array type yields
\* an empty sequence, not null, not a one-element sequence and not an
\* error; encoding an empty host sequence yields an empty sequence.
C19_EmptyArray ==
    /\ (cType.k = "Array" /\ cResult.op = "decode" /\ cData = S(<<"{", "}">>))
       => cResult.err = NoErr /\ cResult.v = L(<<>>)
    /\ (cType.k = "Array" /\ cResult.op = "encode" /\ cData = L(<<>>))
       => cResult.err = NoErr /\ cResult.v = L(<<>>)

\* the encoding half of C19 on its own
C19_EmptyArrayEncodes ==
    (cType.k = "Array" /\ cResult.op = "encode" /\ cData = L(<<>>))
    => cResult.err = NoErr /\ cResult.v = L(<<>>)

\* The elements the text of a one-level array holds: <<>> for "{}", else
\* one more than its commas.
ElementCount(cs) ==
    IF Len(cs) = 2 THEN 0
    ELSE 1 + Cardinality({j \in 1..Len(cs) : cs[j] = ","})

\* C20: decoding an array whose number of elements differs from the fixed
\* length declared by Array[T, N] does not fail: it completes and returns
\* all the decoded elements.
C20_LengthMismatchTolerated ==
    (/\ cType.k = "Array"
     /\ cType.length # NoLength
     /\ cType.type.k = "LiteralType"
     /\ cResult.op = "decode"
     /\ cData.k = "str"
     /\ ElementCount(cData.s) \notin {0, cType.length})
    => /\ cResult.err = NoErr
       /\ cResult.v.k = "list"
       /\ Len(cResult.v.l) = ElementCount(cData.s)

\* C17: an array of strings holding the characters { } " , \ decodes to
\* the elements that were stored: a comma, a brace or an escaped quote
\* inside a quoted element starts no new element.
C17_QuotedElements ==
    (cType = Array(TEXT, NoLength) /\ cResult.op = "decode")
    => \A xs \in StringArrays :
          cData = S(arrayOut(xs)) => (cResult.err = NoErr /\ cResult.v = xs)

\* the same for the arrays of strings the database writes without quotes
C17_PlainElements ==
    (cType = Array(TEXT, NoLength) /\ cResult.op = "decode")
    => \A xs \in {L(<<S(<<"a">>)>>), L(<<S(<<"a">>), S(<<"a">>)>>)} :
          cData = S(arrayOut(xs)) => (cResult.err = NoErr /\ cResult.v = xs)

\* Array applied d times to t
RECURSIVE ArrayOf(_, _)
ArrayOf(t, d) == IF d = 0 THEN t ELSE Array(ArrayOf(t, d - 1), NoLength)

\* Nested arrays of integers of depth d, of one or two elements a level.
RECURSIVE IntArrays(_)
IntArrays(d) ==
    IF d = 1
    THEN {L(<<I(a)>>) : a \in 1..2} \cup {L(<<I(a), I(b)>>) : a \in 1..2, b \in 1..2}
    ELSE {L(<<x>>) : x \in IntArrays(d - 1)} \cup {L(<<x, x>>) : x \in IntArrays(d - 1)}

\* C18: decoding the text of a nested integer array of depth d through
\* Array applied d times to INTEGER yields a nested sequence of the same
\* shape and the same integers.
C18_NestedArrays ==
    \A d \in 1..MaxChain :
        (cType = ArrayOf(INTEGER, d) /\ cResult.op = "decode")
        => \A x \in IntArrays(d) :
              cData = S(arrayOut(x)) => (cResult.err = NoErr /\ cResult.v = x)

\* the same at depth one
C18_FlatArrays ==
    (cType = ArrayOf(INTEGER, 1) /\ cResult.op = "decode")
    => \A x \in IntArrays(1) :
          cData = S(arrayOut(x)) => (cResult.err = NoErr /\ cResult.v = x)

\* a flat array of two integers has been decoded
C18_FlatWitness ==
    /\ cType = ArrayOf(INTEGER, 1)
    /\ cResult.op = "decode"
    /\ cData = S(arrayOut(L(<<I(1), I(2)>>)))
    /\ cResult.v = L(<<I(1), I(2)>>)

-----------------------------------------------------------------------------
(* Creating the tables: starting from a database nothing was created in,   *)
(* the script creates tables with any flags and inserts its two records     *)
(* once their tables exist.                                                 *)

InitDDL ==
    /\ Quiet
    /\ regDecl = <<>>
    /\ regResult = NoReg
    /\ cType = INTEGER
    /\ cData = None
    /\ cResult = NoCodec
    /\ cat = Blank
    /\ proc = Idle

\* cls.createTable(conn, recreateSchema=..., recreateTable=...)
CreateTable(m, recreateSchema, recreateTable) ==
    LET r == createTable(Server(cat, db, seq), m, recreateSchema, recreateTable)
    IN /\ last.op = "none"
       /\ cat' = r.cat
       /\ db' = r.db
       /\ seq' = r.seq
       /\ log' = r.log
       /\ last' = [NoCall EXCEPT !.op = "createTable", !.cls = m, !.err = r.err,
                                 !.recreateSchema = recreateSchema,
                                 !.recreateTable = recreateTable,
                                 !.before = [cat |-> cat, db |-> db, seq |-> seq]]
       /\ UNCHANGED <<heap, origin, regDecl, regResult, cType, cData, cResult, proc>>

\* record.insert(conn) once the tables of the script exist
InsertCreated(o) ==
    /\ {"Person", "Order"} \subseteq cat.tables
    /\ Insert(o)

NextDDL ==
    \/ \E m \in Models, recreateSchema \in BOOLEAN, recreateTable \in BOOLEAN :
          CreateTable(m, recreateSchema, recreateTable)
    \/ \E o \in Roots : InsertCreated(o)
    \/ Return

SpecDDL == InitDDL /\ [][NextDDL]_vars

\* createTable(m) with both flags false, called on the database as it is now
Again == createTable(Server(cat, db, seq), last.cls, FALSE, FALSE)

\* C21: createTable with both recreate flags false is idempotent: a second
\* call in a row raises no error and leaves schemas, tables, rows and enum
\* types as the first call left them, and a call on an existing table keeps
\* the rows of that table.
C21_CreateTableIdempotent ==
    (last.op = "createTable" /\ ~last.recreateSchema /\ ~last.recreateTable)
    => /\ last.err = NoErr => Again.err = NoErr
       /\ Again.cat = cat
       /\ Again.db = db
       /\ Again.seq = seq
       /\ last.cls \in last.before.cat.tables
          => /\ last.err = NoErr
             /\ db[last.cls] = last.before.db[last.cls]

\* createTable has been called without flags on a table that held a row
C21_Witness ==
    /\ last.op = "createTable"
    /\ ~last.recreateSchema
    /\ ~last.recreateTable
    /\ last.cls = "Person"
    /\ last.before.db["Person"] # {}
    /\ db["Person"] # {}

\* The statements the column types of m send when they are initialized, from
\* field i of the declaration on.
RECURSIVE TypeStatements(_, _)
TypeStatements(m, i) ==
    IF i > Len(Declaration(m)) THEN <<>>
    ELSE (IF baseType(Declaration(m)[i].type).k = "EnumType"
          THEN <<DDL("CREATE TYPE", baseType(Declaration(m)[i].type).type, <<>>)>>
          ELSE <<>>) \o TypeStatements(m, i + 1)

\* C23: createTable sends every column's type initialization, then DROP
\* SCHEMA CASCADE only if recreateSchema, then CREATE SCHEMA IF NOT EXISTS,
\* then DROP TABLE CASCADE only if recreateTable, then CREATE TABLE IF NOT
\* EXISTS with one definition per column in declaration order; after a
\* createTable(recreateTable) the table exists and is empty, after a
\* createTable(recreateSchema) the schema holds no other table.
C23_CreateTableOrder ==
    last.op = "createTable"
    => /\ log = TypeStatements(last.cls, 1)
                \o (IF last.recreateSchema
                    THEN <<DDL("DROP SCHEMA", schemaName(last.cls), <<>>)>> ELSE <<>>)
                \o <<DDL("CREATE SCHEMA", schemaName(last.cls), <<>>)>>
                \o (IF last.recreateTable
                    THEN <<DDL("DROP TABLE", last.cls, <<>>)>> ELSE <<>>)
                \o <<DDL("CREATE TABLE", last.cls,
                         [j \in 1..Len(Declaration(last.cls)) |-> Declaration(last.cls)[j].name])>>
       /\ (last.err = NoErr /\ last.recreateTable)
          => (last.cls \in cat.tables /\ db[last.cls] = {})
       /\ (last.err = NoErr /\ last.recreateSchema)
          => {n \in cat.tables : schemaName(n) = schemaName(last.cls)} = {last.cls}

\* a table that held a row has been created anew
C23_Witness ==
    /\ last.op = "createTable"
    /\ last.err = NoErr
    /\ last.recreateTable
    /\ last.cls = "Person"
    /\ last.before.db["Person"] # {}
    /\ db["Person"] = {}

\* a schema that held another table has been created anew
C23_WitnessSchema ==
    /\ last.op = "createTable"
    /\ last.err = NoErr
    /\ last.recreateSchema
    /\ last.cls = "Fruit"
    /\ "Misc" \in last.before.cat.tables
    /\ log[1].op = "CREATE TYPE"

-----------------------------------------------------------------------------
(* Two callers, each on a connection of its own, run insertOrUpdate on a    *)
(* Person record of their own.  The database executes one statement at a    *)
(* time; the callers' statements interleave in any order.                   *)

Callers == {"x", "y"}

\* Where a caller stands in insertOrUpdate: before the call ("start"), before
\* the look-up ("check"), before the insert or update that ends it ("act"),
\* after it ("done"); the record it holds, the instances its look-up found,
\* the statements each step sent, the exception raised.
Racing(rec) ==
    [k |-> "race",
     at |-> [c \in Callers |->
               [pc |-> "start", obj |-> rec[c], found |-> <<>>, sent |-> <<>>,
                err |-> NoErr]]]

InitRace ==
    /\ \E row \in {<<>>, <<[name |-> S(<<"a">>), id |-> I(1)]>>} :
          /\ db = [m \in Models |-> IF m = "Person" THEN {row[j] : j \in 1..Len(row)} ELSE {}]
          /\ seq = [m \in Models |-> IF m = "Person" THEN Len(row) ELSE 0]
    /\ heap = [o \in Roots |->
                 IF o = "p1" THEN New("Person", [name |-> S(<<"a">>)])
                 ELSE New("Order", [customerID |-> Ref("p1")])]
    /\ origin = {}
    /\ log = <<>>
    /\ last = NoCall
    /\ regDecl = <<>>
    /\ regResult = NoReg
    /\ cType = INTEGER
    /\ cData = None
    /\ cResult = NoCodec
    /\ cat = Installed
    /\ \E kx \in {None, I(1)}, ky \in {None, I(1)}, ny \in Names :
          proc = Racing([c \in Callers |->
                           IF c = "x" THEN Obj("Person", [name |-> S(<<"b">>), id |-> kx])
                           ELSE Obj("Person", [name |-> S(ny), id |-> ky])])

\* What a step of caller c that left world and object r does to the state.
Step(c, r, pc, found) ==
    /\ db' = r.w.db
    /\ seq' = r.w.seq
    /\ origin' = r.w.origin
    /\ proc' = [proc EXCEPT !.at[c] =
                   [pc |-> IF r.w.err # NoErr THEN "done" ELSE pc,
                    obj |-> r.v,
                    found |-> found,
                    sent |-> Append(@.sent, r.w.log),
                    err |-> r.w.err]]
    /\ UNCHANGED <<heap, log, last, regDecl, regResult, cType, cData, cResult, cat>>

\* insertOrUpdate up to its look-up: the insert of a record without a key
Begin(c) ==
    /\ proc.at[c].pc = "start"
    /\ Step(c,
            IF primaryKeyValue(proc.at[c].obj) = None THEN insert(World, proc.at[c].obj, c)
            ELSE [w |-> World, v |-> proc.at[c].obj],
            "check", <<>>)

\* the look-up of insertOrUpdate, r being what instatiateAll returned
Looked(c, r) ==
    Step(c, [w |-> r.w, v |-> proc.at[c].obj], "act", r.v)

Check(c) ==
    /\ proc.at[c].pc = "check"
    /\ Looked(c, instatiateAll(World, "Person", Schema("Person").primaryKey,
                                primaryKeyValue(proc.at[c].obj)))

\* the end of insertOrUpdate: insert or update, as the look-up told
Act(c) ==
    /\ proc.at[c].pc = "act"
    /\ Step(c, insertOrUpdateFound([w |-> World, v |-> proc.at[c].found], proc.at[c].obj, c),
            "done", proc.at[c].found)

SpecRace == InitRace /\ [][\E c \in Callers : Begin(c) \/ Check(c) \/ Act(c)]_vars

\* The words of the statements the last step of caller c's call sent.
Acted(c) == {proc.at[c].sent[3][j].op : j \in 1..Len(proc.at[c].sent[3])}

\* C22: insertOrUpdate is not atomic. A caller whose look-up saw no row
\* goes on to INSERT and one whose look-up saw a row goes on to UPDATE,
\* whatever the other caller has done since the look-up: so two callers
\* holding the same key that matches no row can both see no row and both
\* insert, and with an existing row one caller's update can be overwritten
\* by the other's.
C22_CheckThenAct ==
    proc.k = "race"
    => \A c \in Callers :
          (proc.at[c].pc = "done" /\ proc.at[c].err = NoErr)
          => Acted(c) = IF proc.at[c].found = <<>> THEN {"INSERT"} ELSE {"UPDATE"}

\* both callers held the key 1, both look-ups found no row and both callers
\* have inserted: the table holds two rows
C22_Witness ==
    /\ proc.k = "race"
    /\ \A c \in Callers :
          /\ proc.at[c].pc = "done"
          /\ proc.at[c].sent[1] = <<>>
          /\ proc.at[c].found = <<>>
          /\ Acted(c) = {"INSERT"}
    /\ Cardinality(db["Person"]) = 2

\* both callers held the key of the one row, both look-ups found it, both
\* have updated it: the row holds what y wrote and what x wrote is lost
C22_WitnessLostUpdate ==
    /\ proc.k = "race"
    /\ \A c \in Callers :
          /\ proc.at[c].pc = "done"
          /\ proc.at[c].sent[1] = <<>>
          /\ proc.at[c].found # <<>>
          /\ Acted(c) = {"UPDATE"}
    /\ proc.at["x"].obj.f.name # proc.at["y"].obj.f.name
    /\ db["Person"] = {proc.at["y"].obj.f}

-----------------------------------------------------------------------------
(* Properties of the calls on the caller's objects: referenced records and  *)
(* failures.                                                                *)

\* The record the customerID of o1 stood for when the last call was made, as
\* it is now: the caller's p1, or else the record the field holds.
Referent ==
    IF last.refWas.k = "ref" THEN heap[last.refWas.o]
    ELSE Deref(heap, heap["o1"].f.customerID)

\* C24: update(A), and insert(A), persist the current in-memory fields of
\* the record B that A's foreign-key field refers to before A's own row is
\* written: when the call returns, the row of B equals B's in-memory
\* fields, which are those B had when the call was made, and the caller has
\* not called update on B.
C24_CascadePersistsReferent ==
    (last.op \in {"insert", "update"} /\ last.who = "o1" /\ last.err = NoErr)
    => /\ primaryKeyValue(Referent) # None
       /\ Referent.f \in db["Person"]
       /\ Referent.f.name = last.refBefore.f.name
       /\ Stmts(Writes, "Person") # {}
       /\ \A i \in Stmts(Writes, "Person"), j \in Stmts(Writes, "Order") : i < j

\* the Order has been updated after the caller changed the name of the
\* Person it refers to, and the row of the Person has the new name
C24_Witness ==
    /\ last.op = "update"
    /\ last.who = "o1"
    /\ last.err = NoErr
    /\ last.refWas = Ref("p1")
    /\ last.refPkBefore # None
    /\ heap["p1"].f.name = S(<<"b">>)
    /\ \E i \in Stmts({"UPDATE"}, "Person") : TRUE
    /\ \E j \in Stmts({"UPDATE"}, "Order") : log[j].n = 1

-----------------------------------------------------------------------------
(* Fetching incrementally: the caller holds the generator of instatiate    *)
(* and resumes it one record at a time.                                     *)

\* The Order tables with keys up to MaxOrders + 1.  A customer need not be a row
\* of the Person table: recreating that table drops its rows and, by
\* CASCADE, the constraint the orders were under.
LooseOrderTables ==
    {{[id |-> I(i), customerID |-> I(f[i])] : i \in {j \in 1..(MaxOrders + 1) : f[j] # 0}} :
        f \in [1..(MaxOrders + 1) -> 0..MaxKey]}

InitLazy ==
    /\ \E persons \in PersonTables : \E orders \in LooseOrderTables :
          db = [m \in Models |-> CASE m = "Person" -> persons
                                   [] m = "Order" -> orders
                                   [] OTHER -> {}]
    /\ seq = [m \in Models |-> CASE m = "Person" -> MaxKey
                                 [] m = "Order" -> (MaxOrders + 1)
                                 [] OTHER -> 0]
    /\ heap = [o \in Roots |->
                 IF o = "p1" THEN New("Person", [name |-> S(<<"a">>)])
                 ELSE New("Order", [customerID |-> Ref("p1")])]
    /\ origin = {}
    /\ log = <<>>
    /\ last = NoCall
    /\ regDecl = <<>>
    /\ regResult = NoReg
    /\ cType = INTEGER
    /\ cData = None
    /\ cResult = NoCodec
    /\ cat = Installed
    /\ proc = Idle

\* g = cls.instatiate(conn): nothing is sent yet
Instatiate(m) ==
    /\ proc = Idle
    /\ proc' = Generator(m)
    /\ UNCHANGED <<db, seq, heap, origin, log, last, regDecl, regResult, cType, cData,
                   cResult, cat>>

\* next(g)
Resume ==
    /\ proc.k = "gen"
    /\ proc.state \in {"created", "suspended"}
    /\ \E rows \in Orderings(db[proc.m]) :
          LET r == resume(World, proc, rows)
          IN /\ proc' = r.v
             /\ db' = r.w.db
             /\ seq' = r.w.seq
             /\ heap' = r.w.heap
             /\ origin' = r.w.origin
             /\ log' = r.w.log
    /\ UNCHANGED <<last, regDecl, regResult, cType, cData, cResult, cat>>

SpecLazy ==
    InitLazy /\ [][(\E m \in {"Person", "Order"} : Instatiate(m)) \/ Resume]_vars

\* C25: fetch decodes row by row in the order the database returns the
\* rows: whenever the caller has resumed the sequence up to row N, the
\* records of the rows before N have been delivered, each equal to the
\* decoding of its row, also when decoding row N has failed.
C25_LazyFetch ==
    (proc.k = "gen" /\ proc.state # "created")
    => /\ Len(proc.delivered) = IF proc.state = "suspended" THEN proc.at ELSE proc.at - 1
       /\ \A i \in 1..Len(proc.delivered) :
              proc.delivered[i] = RecordFor(db, proc.m, proc.rows[i])
       /\ proc.state = "raised"
          => \A p \in db["Person"] : p.id # proc.rows[proc.at].customerID

\* the first order has been delivered and decoding the second has failed
C25_Witness ==
    /\ proc.k = "gen"
    /\ proc.state = "raised"
    /\ proc.m = "Order"
    /\ proc.at = 2
    /\ Len(proc.delivered) = 1
    /\ proc.err = "IndexError"

-----------------------------------------------------------------------------
(* Properties of the field names at registration.                          *)

\* The whole of cs is an identifier of the pattern
\* [A-Za-z_][A-Za-z0-9_]{0,58}.
FullMatch(cs) ==
    /\ Len(cs) \in 1..(NameTail + 1)
    /\ cs[1] \in Letters \/ cs[1] = "_"
    /\ \A j \in 2..Len(cs) : cs[j] \in Letters \/ IsDigit(cs[j]) \/ cs[j] = "_"

\* The fields of decl whose name is not such an identifier or is conn.
BadNames(decl) ==
    {j \in 1..Len(decl) : ~FullMatch(Chars[decl[j].name]) \/ decl[j].name = "conn"}

\* C26: registration rejects every field whose name does not match the
\* identifier pattern [A-Za-z_][A-Za-z0-9_]{0,58} in full, in particular
\* every name longer than 59 characters, and every field named conn, and
\* accepts every other name: a declaration with such a field is refused
\* with an AssertionError, and one without is not refused for a name.
C26_NamePatternInFull ==
    regResult.err # "none"
    => /\ BadNames(regDecl) # {} => regResult.err # NoErr
       /\ (/\ BadNames(regDecl) = {}
           /\ \A j \in 1..Len(regDecl) :
                 /\ IsColumnType(regDecl[j].type)
                 /\ regDecl[j].default \in {"MISSING", "NO_DEFAULT", "AUTO_FILLED"}
           /\ Cardinality(PrimaryColumns(regDecl)) < 2)
          => regResult.err = NoErr

\* The primary-key values of rows.
KeysOf(rows) == {r.id : r \in rows}

\* C27: update never changes the set of primary-key values in the table nor
\* the number of rows: it modifies at most the row whose key equals the
\* record's current primary-key value and leaves every other row of the
\* table as it was; on a record type with no primary key it fails without
\* sending any statement.
C27_UpdateFrame ==
    last.op = "update"
    => IF last.who = "anon"
       THEN last.err # NoErr /\ log = <<>> /\ db = last.before.db
       ELSE /\ KeysOf(db[ModelOf(last.who)]) = KeysOf(last.before.db[ModelOf(last.who)])
            /\ Cardinality(db[ModelOf(last.who)])
                  = Cardinality(last.before.db[ModelOf(last.who)])
            /\ \A r \in last.before.db[ModelOf(last.who)] :
                  r.id # last.pkBefore => r \in db[ModelOf(last.who)]

\* a Person has been updated in a table of two rows, and its row changed
C27_Witness ==
    /\ last.op = "update"
    /\ last.who = "p1"
    /\ last.err = NoErr
    /\ Cardinality(db["Person"]) = 2
    /\ db["Person"] # last.before.db["Person"]

\* an update on the record type without a primary key has failed
C27_WitnessKeyless ==
    /\ last.op = "update"
    /\ last.who = "anon"
    /\ last.err = "TypeError"

-----------------------------------------------------------------------------
(* A record with two foreign keys and a quantity: the caller holds one     *)
(* TestOrder, proc.obj, next to the Person p1.                              *)

InitCascade ==
    /\ Quiet
    /\ regDecl = <<>>
    /\ regResult = NoReg
    /\ cType = INTEGER
    /\ cData = None
    /\ cResult = NoCodec
    /\ cat = Installed
    /\ \E product, user \in FieldValues("TestOrder", "product") :
       \E quantity \in {I(1), S(<<"x">>)} :
          proc = [k |-> "rec",
                  obj |-> New("TestOrder", [product |-> product, user |-> user,
                                            quantity |-> quantity])]

\* a call op on the TestOrder with outcome r
CascadeCall(op, r) ==
    /\ last.op = "none"
    /\ r.w.seq["Person"] <= MaxKey
    /\ r.w.seq["TestOrder"] <= MaxOrders
    /\ db' = r.w.db
    /\ seq' = r.w.seq
    /\ heap' = r.w.heap
    /\ origin' = r.w.origin
    /\ log' = r.w.log
    /\ proc' = [proc EXCEPT !.obj = r.v]
    /\ last' = [NoCall EXCEPT !.op = op, !.who = "t1", !.cls = "TestOrder",
                              !.err = r.w.err,
                              !.pkBefore = primaryKeyValue(proc.obj),
                              !.refWas = <<proc.obj.f.product, proc.obj.f.user>>,
                              !.refPkBefore = primaryKeyValue(heap["p1"]),
                              !.before = [cat |-> cat, db |-> db, seq |-> seq]]
    /\ UNCHANGED <<regDecl, regResult, cType, cData, cResult, cat>>

CascadeInsert == CascadeCall("insert", insert(World, proc.obj, "t1"))

CascadeUpdate == CascadeCall("update", update(World, proc.obj, "t1"))

\* the caller sets the quantity of the TestOrder
CascadeAssign ==
    \E quantity \in {I(1), I(2), S(<<"x">>)} :
        /\ last.op = "none"
        /\ quantity # proc.obj.f.quantity
        /\ proc' = [proc EXCEPT !.obj.f.quantity = quantity]
        /\ UNCHANGED <<db, seq, heap, origin, log, last, regDecl, regResult, cType, cData,
                       cResult, cat>>

SpecCascade ==
    InitCascade /\ [][CascadeInsert \/ CascadeUpdate \/ CascadeAssign
                      \/ InsertOrUpdate("p1") \/ Assign("p1") \/ Return]_vars

\* C28 as stated: a failed insert or update is all-or-nothing for the
\* database: if encoding any column of the record fails, no table has been
\* modified, including the tables of the records referenced by foreign-key
\* columns that come earlier in declaration order.
C28_FailedWriteChangesNothing ==
    (last.who = "t1" /\ last.op \in {"insert", "update"} /\ last.err # NoErr)
    => db = last.before.db

\* C29: if the same not-yet-persisted record B is referenced from several
\* foreign-key fields of A, inserting A creates exactly one row for B, and
\* every one of A's stored references holds that single row's key.
C29_OneRowForSharedReferent ==
    (/\ last.who = "t1" /\ last.op = "insert" /\ last.err = NoErr
     /\ last.refWas = <<Ref("p1"), Ref("p1")>>
     /\ last.refPkBefore = None)
    => /\ Cardinality(db["Person"]) = Cardinality(last.before.db["Person"]) + 1
       /\ \E b \in db["Person"] \ last.before.db["Person"] :
             \A r \in db["TestOrder"] \ last.before.db["TestOrder"] :
                r.product = b.id /\ r.user = b.id
       /\ Cardinality(db["TestOrder"] \ last.before.db["TestOrder"]) = 1

\* a TestOrder whose product and user are the unsaved p1 has been inserted
C29_Witness ==
    /\ last.who = "t1" /\ last.op = "insert" /\ last.err = NoErr
    /\ last.refWas = <<Ref("p1"), Ref("p1")>>
    /\ last.refPkBefore = None
    /\ Cardinality(db["Person"]) = 1
    /\ \E r \in db["TestOrder"] : r.product = I(1) /\ r.user = I(1)

-----------------------------------------------------------------------------
(* Properties of the foreign-key codec.                                     *)

\* C30 as stated: for a foreign key declared against an explicit column,
\* ForeignKey[Model, col], the value written to the referencing column is
\* the referenced record's value of column col, and decode looks the
\* referenced record up by column col, also when col is not the referenced
\* model's primary-key column.
C30_ForeignKeyByColumn ==
    /\ (cType.k = "ForeignKey" /\ cResult.op = "encode" /\ cResult.err = NoErr
        /\ cData = Ref("p1"))
       => cResult.v = heap["p1"].f[cType.column]
    /\ (cType.k = "ForeignKey" /\ cResult.op = "decode" /\ cData # None
        /\ \E row \in db[cType.model] : Matches(row, cType.column, cData))
       => /\ cResult.err = NoErr
          /\ Matches(cResult.v.f, cType.column, cData)

\* C30 for the foreign keys against the primary-key column only
C30_ForeignKeyByPrimaryKey ==
    /\ (cType.k = "ForeignKey" /\ cType.column = "id" /\ cResult.op = "encode"
        /\ cResult.err = NoErr /\ cData = Ref("p1"))
       => cResult.v = heap["p1"].f[cType.column]
    /\ (cType.k = "ForeignKey" /\ cType.column = "id" /\ cResult.op = "decode"
        /\ cData # None
        /\ \E row \in db[cType.model] : Matches(row, cType.column, cData))
       => /\ cResult.err = NoErr
          /\ Matches(cResult.v.f, cType.column, cData)

\* Encoding an array that holds the unsaved p1 twice creates one row, whose
\* key both elements of the encoded array are.
C29_ArrayOfSharedReferent ==
    (/\ cType = Array(ForeignKey("Person", "id"), NoLength)
     /\ cResult.op = "encode"
     /\ cData = L(<<Ref("p1"), Ref("p1")>>))
    => /\ cResult.err = NoErr
       /\ Cardinality({x \in origin : x.who = "p1"}) = 1
       /\ cResult.v = L(<<primaryKeyValue(heap["p1"]), primaryKeyValue(heap["p1"])>>)

\* the array holding the unsaved p1 twice has been encoded
C29_ArrayWitness ==
    /\ cType = Array(ForeignKey("Person", "id"), NoLength)
    /\ cResult.op = "encode"
    /\ cData = L(<<Ref("p1"), Ref("p1")>>)
    /\ cResult.v = L(<<I(1), I(1)>>)

=============================================================================
